---- MODULE Spec2Model ----
(***************************************************************************)
(* Model of the session relay of `dispatch run` (cli/run.go): the           *)
(* coordinator (RunE), the signal handler goroutine, the TUI goroutine,    *)
(* the poller goroutine, one invocation goroutine per delivered request,   *)
(* the response-pipe writer of each invocation, the stdout/stderr prefix   *)
(* scanners, the child process and the bridge / local endpoint as the      *)
(* environment; and of the function call model the TUI keeps of the       *)
(* requests and responses it observes (cli/run_default.go).                *)
(***************************************************************************)
EXTENDS Integers, FiniteSets, Sequences, TLC

\* Bounds of the model.
MaxRequests == 2        \* requests the bridge delivers (polls answered 200)
MaxSignals == 3         \* SIGHUP/SIGINT/SIGTERM deliveries by the OS
MaxObs == 4             \* calls of the observer (ObserveRequest, ObserveResponse)
MaxInput == 2           \* runes typed into the text input of select mode
MaxPending == 1         \* focusSelect commands whose message is still to come

\* signals := make(chan os.Signal, 2)
SignalChanCap == 2

Requests == 1..MaxRequests

\* Outcomes of client.Do in poll(): the status of the answer, or a transport error.
PollOutcomes == {"200", "401", "504", "other", "neterr"}

\* Errors invoke() returns ("none" is a nil error).
LocalFailures == {"invalid_request", "unreachable", "unreadable", "invalid_response"}
PostFailure == "post_failed"

VARIABLES
    mainPc,           \* position of RunE: "start", "wait", "wgwait", "returned"
    runResult,        \* what RunE returned
    hint,             \* the session id of the resumption dialog printed, or "none"
    verbose,          \* var Verbose bool (--verbose)
    procState,        \* the agent process: "running", "exited", "panicked"
    childState,       \* cmd.Process: "notstarted" (nil), "running", "exited"
    childErr,         \* whether cmd.Wait returned an error
    ctxDone,          \* the run context is cancelled
    wg,               \* sync.WaitGroup counter
    signals,          \* number of signals buffered in the channel
    sigDelivered,     \* OS signal deliveries so far (bounded by MaxSignals)
    signaled,         \* var signaled bool
    termSent,         \* cmd.Process.Signal(SIGTERM) calls
    killSent,         \* cmd.Process.Kill() calls
    handlerPc,        \* signal handler goroutine: "select", "done"
    tui,              \* whether the TUI is enabled (interactive terminal)
    tuiPc,            \* TUI goroutine: "off", "running", "interrupt", "done"
    pollerPc,         \* poller goroutine: "loop","polling","got","spawn","sleep","done"
    pollRes,          \* outcome of the last poll ("" once the next is issued)
    authFailed,       \* the poller reported an authError (failure(e.Error()))
    delivered,        \* polls answered 200 so far; the last is the poller's requestID
    successfulPolls,  \* var successfulPolls int64
    spawns,           \* per request: invocation goroutines started for it
    invPc,            \* per request: "none","parse","forward","post","failed","done"
    invErr,           \* per request: the error invoke() returned
    posts,            \* per request: response POSTs issued
    cleanups,         \* per request: Cleanup DELETEs issued
    pwLive,           \* per request: its pipe writer goroutine is still running
    localRes,         \* per request: what the local endpoint answered ("none" before)
    obsReq,           \* per request: observer.ObserveRequest calls
    obsResp,          \* per request: observer.ObserveResponse calls
    scanners,         \* printPrefixedLines goroutines still running
    calls,            \* TUI.calls: map[DispatchID]functionCall
    roots,            \* TUI.roots
    orderedRoots,     \* TUI.orderedRoots
    now,              \* the clock: the time passed to the next observer call
    inflight,         \* per id: requests observed whose response is still to come
    observed,         \* per id: ObserveRequest calls so far
    lastOp,           \* the last call into the TUI and its input
    linked,           \* the <<root, parent, id>> of the requests observed with a parent
                      \* other than their root
    rows,             \* the rows built by the last functionsView
    ui,               \* the display fields of the TUI struct and its event loop
    obsPanic          \* the panic an observer call raised, or "none"

vars == <<mainPc, runResult, hint, verbose, procState, childState, childErr, ctxDone, wg,
          signals, sigDelivered, signaled, termSent, killSent,
          handlerPc, tui, tuiPc, pollerPc, pollRes, authFailed,
          delivered, successfulPolls, spawns, invPc, invErr, posts,
          cleanups, pwLive, localRes, obsReq, obsResp, scanners,
          calls, roots, orderedRoots, now, inflight, observed, lastOp, linked,
          rows, ui, obsPanic>>

mainVars == <<mainPc, runResult, hint, verbose>>
childVars == <<childState, childErr, scanners>>
sigVars == <<signals, sigDelivered, signaled, termSent, killSent, handlerPc>>
tuiVars == <<tui, tuiPc>>
pollVars == <<pollerPc, pollRes, authFailed, delivered,
              successfulPolls, spawns>>
invVars == <<invPc, invErr, posts, cleanups, pwLive, localRes, obsReq, obsResp>>
callVars == <<calls, roots, orderedRoots, now, inflight, observed, lastOp,
              linked, rows, ui, obsPanic>>

Alive == procState = "running"

\* Dispatch ids of the calls the observer is shown; the function the requests
\* name and the function the tail calls name.
Ids == {"a", "b"}
NoId == ""
RequestFunctions == {"f"}
TailCallFunctions == {"g"}

\* The zero time.Time; the clock starts after it.
ZeroTime == 0

\* The zero functionCall.
NewCall ==
    [lastFunction |-> "", lastStatus |-> "UNSPECIFIED", lastError |-> "none",
     failures |-> 0, polls |-> 0,
     running |-> FALSE, suspended |-> FALSE, done |-> FALSE,
     creationTime |-> ZeroTime, expirationTime |-> ZeroTime, doneTime |-> ZeroTime,
     children |-> {}, orderedChildren |-> <<>>, timeline |-> <<>>]

\* The display fields of the TUI after TUI.Init(), and the event loop of the
\* program about to render for the first time. selection is the value of the
\* text input, selected the DispatchID t.selected points to (NoId for nil),
\* pending the focusSelect commands whose message is still to come, msg the
\* message Update handled last, unlocked the model fields the last Update or
\* View accessed without holding t.mu, detail the id the detail view showed.
InitUI ==
    [ready |-> FALSE, activeTab |-> "functions", selectMode |-> FALSE,
     tailMode |-> TRUE, selection |-> <<>>, selected |-> NoId, err |-> FALSE,
     pending |-> 0, pc |-> "view", quit |-> FALSE, msg |-> "none",
     unlocked |-> {}, detail |-> NoId]

----------------------------------------------------------------------------
\* State when RunE reaches cmd.Start(): the signal handler, the TUI (if any)
\* and the poller goroutines are spawned and registered in the wait group.
Init ==
    /\ mainPc = "start"
    /\ runResult = "none"
    /\ hint = "none"
    /\ verbose \in BOOLEAN
    /\ procState = "running"
    /\ childState = "notstarted"
    /\ childErr = FALSE
    /\ ctxDone = FALSE
    /\ tui \in BOOLEAN
    /\ tuiPc = IF tui THEN "running" ELSE "off"
    /\ wg = IF tui THEN 3 ELSE 2
    /\ signals = 0
    /\ sigDelivered = 0
    /\ signaled = FALSE
    /\ termSent = 0
    /\ killSent = 0
    /\ handlerPc = "select"
    /\ pollerPc = "loop"
    /\ pollRes = ""
    /\ authFailed = FALSE
    /\ delivered = 0
    /\ successfulPolls = 0
    /\ spawns = [r \in Requests |-> 0]
    /\ invPc = [r \in Requests |-> "none"]
    /\ invErr = [r \in Requests |-> "none"]
    /\ posts = [r \in Requests |-> 0]
    /\ cleanups = [r \in Requests |-> 0]
    /\ pwLive = [r \in Requests |-> FALSE]
    /\ localRes = [r \in Requests |-> "none"]
    /\ obsReq = [r \in Requests |-> 0]
    /\ obsResp = [r \in Requests |-> 0]
    /\ scanners = 0
    /\ calls = <<>>
    /\ roots = {}
    /\ orderedRoots = <<>>
    /\ now = 1
    /\ inflight = [i \in Ids |-> 0]
    /\ observed = [i \in Ids |-> 0]
    /\ lastOp = [op |-> "none"]
    /\ linked = {}
    /\ rows = <<>>
    /\ ui = InitUI
    /\ obsPanic = "none"

----------------------------------------------------------------------------
\* The coordinator.

\* cmd.Start() succeeds; the two prefix scanners are started with a bare `go`.
StartOk ==
    /\ Alive /\ mainPc = "start"
    /\ mainPc' = "wait"
    /\ childState' = "running"
    /\ scanners' = 2
    /\ UNCHANGED <<runResult, hint, verbose, procState, childErr, ctxDone, wg>>
    /\ UNCHANGED <<sigVars, tuiVars, pollVars, invVars>>
    /\ UNCHANGED callVars

\* cmd.Start() fails: RunE returns at once; only the deferred cancel() runs.
StartFail ==
    /\ Alive /\ mainPc = "start"
    /\ mainPc' = "returned"
    /\ runResult' = "start_failed"
    /\ ctxDone' = TRUE
    /\ UNCHANGED <<hint, verbose, procState, childVars, wg>>
    /\ UNCHANGED <<sigVars, tuiVars, pollVars, invVars>>
    /\ UNCHANGED callVars

\* The child process exits, on its own or because it was signalled or killed.
ChildExit(e) ==
    /\ childState = "running"
    /\ childState' = "exited"
    /\ childErr' = e
    /\ UNCHANGED <<mainVars, procState, ctxDone, wg, scanners>>
    /\ UNCHANGED <<sigVars, tuiVars, pollVars, invVars>>
    /\ UNCHANGED callVars

\* cmd.Wait() returns, then cancel().
WaitReturn ==
    /\ Alive /\ mainPc = "wait" /\ childState = "exited"
    /\ mainPc' = "wgwait"
    /\ ctxDone' = TRUE
    /\ UNCHANGED <<runResult, hint, verbose, procState, childVars, wg>>
    /\ UNCHANGED <<sigVars, tuiVars, pollVars, invVars>>
    /\ UNCHANGED callVars

\* Mutant: a forwarded signal does not clear the child's exit error.
ExitResult_signalKeepsError(sig, err, polls) ==
    IF err THEN "failed_invoke"
    ELSE IF ~sig /\ polls = 0 THEN "unexpected_exit"
    ELSE "ok"

\* Mutant: a child that exits cleanly always ends the run with success.
ExitResult_cleanExitOk(sig, err, polls) ==
    LET e == IF sig THEN FALSE ELSE err
    IN  IF e THEN "failed_invoke" ELSE "ok"

\* The exit semantics after wg.Wait().
ExitResult(sig, err, polls) ==
    LET e == IF sig THEN FALSE ELSE err
    IN  IF e THEN "failed_invoke"
        ELSE IF ~sig /\ polls = 0 THEN "unexpected_exit"
        ELSE "ok"

\* Mutant: the dialog is printed whether or not a poll succeeded.
ResumeHint_anyPolls(sig, polls, verb) ==
    IF sig /\ ~verb THEN "session" ELSE "none"

\* BridgeSession: the id of the session, as given by --session or generated.
BridgeSession == "session"

\* The dialog "To resume this Dispatch session: ... run --session <id> -- ..."
\* printed after wg.Wait(): the session id it shows, or "none" without dialog.
ResumeHint(sig, polls, verb) ==
    IF sig /\ polls > 0 /\ ~verb THEN BridgeSession ELSE "none"

\* wg.Wait() returns once the counter is zero; the exit semantics; RunE returns.
WgWaitReturn ==
    /\ Alive /\ mainPc = "wgwait" /\ wg = 0
    /\ mainPc' = "returned"
    /\ runResult' = ExitResult(signaled, childErr, successfulPolls)
    /\ hint' = ResumeHint(signaled, successfulPolls, verbose)
    /\ UNCHANGED <<verbose, procState, childVars, ctxDone, wg>>
    /\ UNCHANGED <<sigVars, tuiVars, pollVars, invVars>>
    /\ UNCHANGED callVars

\* main(): after cli.Main() returns the process ends, with every goroutine
\* that is still running.
ProcessExit ==
    /\ Alive /\ mainPc = "returned"
    /\ procState' = "exited"
    /\ UNCHANGED <<mainVars, childVars, ctxDone, wg>>
    /\ UNCHANGED <<sigVars, tuiVars, pollVars, invVars>>
    /\ UNCHANGED callVars

\* A prefix scanner reaches the end of the child's stream.
ScannerDone ==
    /\ Alive /\ scanners > 0 /\ childState = "exited"
    /\ scanners' = scanners - 1
    /\ UNCHANGED <<mainVars, procState, childState, childErr, ctxDone, wg>>
    /\ UNCHANGED <<sigVars, tuiVars, pollVars, invVars>>
    /\ UNCHANGED callVars

----------------------------------------------------------------------------
\* The signal handler goroutine and the OS.

\* signal.Notify: the OS delivers SIGHUP, SIGINT or SIGTERM; the runtime sends
\* it on the channel without blocking, so it is dropped when the buffer is full.
DeliverSignal ==
    /\ Alive /\ sigDelivered < MaxSignals
    /\ sigDelivered' = sigDelivered + 1
    /\ signals' = IF signals < SignalChanCap THEN signals + 1 ELSE signals
    /\ UNCHANGED <<signaled, termSent, killSent, handlerPc>>
    /\ UNCHANGED <<mainVars, procState, childVars, ctxDone, wg>>
    /\ UNCHANGED <<tuiVars, pollVars, invVars>>
    /\ UNCHANGED callVars

\* Mutant: every signal forwards SIGTERM, none escalates to Kill.
HandleSignal_noEscalate ==
    /\ Alive /\ handlerPc = "select" /\ signals > 0
    /\ signals' = signals - 1
    /\ signaled' = TRUE
    /\ IF childState = "notstarted"
       THEN /\ procState' = "panicked"
            /\ UNCHANGED <<termSent, killSent>>
       ELSE /\ procState' = procState
            /\ termSent' = termSent + 1
            /\ killSent' = killSent
    /\ UNCHANGED <<sigDelivered, handlerPc>>
    /\ UNCHANGED <<mainVars, childVars, ctxDone, wg>>
    /\ UNCHANGED <<tuiVars, pollVars, invVars>>
    /\ UNCHANGED callVars

\* case <-signals: the first signal sets signaled and forwards SIGTERM, a later
\* one kills the child. Before cmd.Start() returned, cmd.Process is nil and the
\* call through it panics (signaled is assigned before the call).
HandleSignal ==
    /\ Alive /\ handlerPc = "select" /\ signals > 0
    /\ signals' = signals - 1
    /\ signaled' = TRUE
    /\ IF childState = "notstarted"
       THEN /\ procState' = "panicked"
            /\ UNCHANGED <<termSent, killSent>>
       ELSE /\ procState' = procState
            /\ termSent' = IF ~signaled THEN termSent + 1 ELSE termSent
            /\ killSent' = IF signaled THEN killSent + 1 ELSE killSent
    /\ UNCHANGED <<sigDelivered, handlerPc>>
    /\ UNCHANGED <<mainVars, childVars, ctxDone, wg>>
    /\ UNCHANGED <<tuiVars, pollVars, invVars>>
    /\ UNCHANGED callVars

\* case <-ctx.Done(): return (wg.Done is deferred).
HandlerReturn ==
    /\ Alive /\ handlerPc = "select" /\ ctxDone
    /\ handlerPc' = "done"
    /\ wg' = wg - 1
    /\ UNCHANGED <<signals, sigDelivered, signaled, termSent, killSent>>
    /\ UNCHANGED <<mainVars, procState, childVars, ctxDone>>
    /\ UNCHANGED <<tuiVars, pollVars, invVars>>
    /\ UNCHANGED callVars

----------------------------------------------------------------------------
\* The TUI goroutine.

\* p.Run() returns because the user quit the TUI.
TuiQuit ==
    /\ Alive /\ tuiPc = "running"
    /\ tuiPc' = "interrupt"
    /\ UNCHANGED <<tui, mainVars, procState, childVars, ctxDone, wg>>
    /\ UNCHANGED <<sigVars, pollVars, invVars>>
    /\ UNCHANGED callVars

\* p.Run() returns tea.ErrProgramKilled because the run context is cancelled.
TuiKilled ==
    /\ Alive /\ tuiPc = "running" /\ ctxDone
    /\ tuiPc' = "interrupt"
    /\ UNCHANGED <<tui, mainVars, procState, childVars, ctxDone, wg>>
    /\ UNCHANGED <<sigVars, pollVars, invVars>>
    /\ UNCHANGED callVars

\* The implicit interrupt: a non-blocking send of SIGINT on the channel; the
\* goroutine then returns.
TuiInterrupt ==
    /\ Alive /\ tuiPc = "interrupt"
    /\ tuiPc' = "done"
    /\ signals' = IF signals < SignalChanCap THEN signals + 1 ELSE signals
    /\ wg' = wg - 1
    /\ UNCHANGED <<sigDelivered, signaled, termSent, killSent, handlerPc>>
    /\ UNCHANGED <<tui, mainVars, procState, childVars, ctxDone>>
    /\ UNCHANGED <<pollVars, invVars>>
    /\ UNCHANGED callVars

----------------------------------------------------------------------------
\* The poller goroutine.

\* for ctx.Err() == nil { poll(...) }: the loop ends, or the GET is issued.
PollerLoop ==
    /\ Alive /\ pollerPc = "loop"
    /\ IF ctxDone
       THEN pollerPc' = "done" /\ wg' = wg - 1
       ELSE pollerPc' = "polling" /\ wg' = wg
    /\ pollRes' = ""
    /\ UNCHANGED <<authFailed, delivered, successfulPolls, spawns>>
    /\ UNCHANGED <<mainVars, procState, childVars, ctxDone>>
    /\ UNCHANGED <<sigVars, tuiVars, invVars>>
    /\ UNCHANGED callVars

\* client.Do returns in poll(): a 200 delivers the next pending request.
PollReturn(o) ==
    /\ Alive /\ pollerPc = "polling"
    /\ o = "200" => delivered < MaxRequests
    /\ pollerPc' = "got"
    /\ pollRes' = o
    /\ delivered' = IF o = "200" THEN delivered + 1 ELSE delivered
    /\ UNCHANGED <<authFailed, successfulPolls, spawns>>
    /\ UNCHANGED <<mainVars, procState, childVars, ctxDone, wg>>
    /\ UNCHANGED <<sigVars, tuiVars, invVars>>
    /\ UNCHANGED callVars

\* Mutant: a 504 is taken for a delivered request.
PollResult_504res(o) ==
    CASE o \in {"200", "504"} -> "res"
      [] o = "401" -> "auth"
      [] OTHER -> "err"

\* What poll() returns for an outcome: "res" (a request), "nil" (no work),
\* "auth" (authError) or "err" (any other error).
PollResult(o) ==
    CASE o = "200" -> "res"
      [] o = "401" -> "auth"
      [] o = "504" -> "nil"
      [] OTHER -> "err"

\* Mutant: a request polled while the run context is cancelled is dropped.
PollerNext_dropOnCancel(p, cancelled) ==
    CASE cancelled /\ p # "nil" -> "done"
      [] p = "auth" -> "done"
      [] p = "err" -> "sleep"
      [] p = "nil" -> "loop"
      [] OTHER -> "spawn"

\* Mutant: an authError is retried like a transient error.
PollerNext_authRetry(p, cancelled) ==
    CASE p \in {"auth", "err"} /\ cancelled -> "done"
      [] p \in {"auth", "err"} -> "sleep"
      [] p = "nil" -> "loop"
      [] OTHER -> "spawn"

\* Mutant: a transient error ends the poller.
PollerNext_errStops(p, cancelled) ==
    CASE p \in {"auth", "err"} -> "done"
      [] p = "nil" -> "loop"
      [] OTHER -> "spawn"

\* Where the poller goes with what poll() returned (p), given whether the run
\* context is cancelled: it returns ("done"), sleeps 1 s and retries ("sleep"),
\* polls again ("loop"), or counts the poll and spawns an invocation ("spawn").
PollerNext(p, cancelled) ==
    CASE p \in {"auth", "err"} /\ cancelled -> "done"
      [] p = "auth" -> "done"
      [] p = "err" -> "sleep"
      [] p = "nil" -> "loop"
      [] OTHER -> "spawn"

\* The poller's handling of what poll() returned; on success
\* atomic.AddInt64(&successfulPolls, +1).
HandlePoll ==
    /\ Alive /\ pollerPc = "got"
    /\ LET p == PollResult(pollRes) IN
       /\ pollerPc' = PollerNext(p, ctxDone)
       /\ authFailed' = (authFailed \/ (p = "auth" /\ ~ctxDone))
    /\ successfulPolls' = IF pollerPc' = "spawn" THEN successfulPolls + 1 ELSE successfulPolls
    /\ wg' = IF pollerPc' = "done" THEN wg - 1 ELSE wg
    /\ UNCHANGED <<pollRes, delivered, spawns>>
    /\ UNCHANGED <<mainVars, procState, childVars, ctxDone>>
    /\ UNCHANGED <<sigVars, tuiVars, invVars>>
    /\ UNCHANGED callVars

\* wg.Add(1); go func() { invoke(..., requestID, res, ...) }().
Spawn ==
    /\ Alive /\ pollerPc = "spawn"
    /\ pollerPc' = "loop"
    /\ wg' = wg + 1
    /\ spawns' = [spawns EXCEPT ![delivered] = @ + 1]
    /\ invPc' = [invPc EXCEPT ![delivered] = "parse"]
    /\ UNCHANGED <<pollRes, authFailed, delivered, successfulPolls>>
    /\ UNCHANGED <<invErr, posts, cleanups, pwLive, localRes, obsReq, obsResp>>
    /\ UNCHANGED <<mainVars, procState, childVars, ctxDone>>
    /\ UNCHANGED <<sigVars, tuiVars>>
    /\ UNCHANGED callVars

\* time.Sleep(1 * time.Second); continue.
PollerSleep ==
    /\ Alive /\ pollerPc = "sleep"
    /\ pollerPc' = "loop"
    /\ UNCHANGED <<pollRes, authFailed, delivered, successfulPolls, spawns>>
    /\ UNCHANGED <<mainVars, procState, childVars, ctxDone, wg>>
    /\ UNCHANGED <<sigVars, tuiVars, invVars>>
    /\ UNCHANGED callVars

----------------------------------------------------------------------------
\* An invocation goroutine, for the request r.

ParseOutcomes == {"ok", "invalid", "observer_panic"}

\* http.ReadRequest, io.Copy and proto.Unmarshal of the embedded request, then
\* observer.ObserveRequest(&runRequest) if there is an observer (the TUI).
\* The TUI's ObserveRequest panics on a request whose parent is neither known
\* nor the root; the panic is raised in the invocation goroutine and ends the
\* process.
InvParse(r, o) ==
    /\ Alive /\ invPc[r] = "parse"
    /\ o = "observer_panic" => tui
    /\ invPc' = [invPc EXCEPT ![r] = CASE o = "ok" -> "forward"
                                        [] o = "invalid" -> "failed"
                                        [] OTHER -> "panicked"]
    /\ invErr' = [invErr EXCEPT ![r] = IF o = "invalid" THEN "invalid_request" ELSE "none"]
    /\ obsReq' = [obsReq EXCEPT ![r] = IF tui /\ o # "invalid" THEN @ + 1 ELSE @]
    /\ procState' = IF o = "observer_panic" THEN "panicked" ELSE procState
    /\ UNCHANGED <<posts, cleanups, pwLive, localRes, obsResp>>
    /\ UNCHANGED <<mainVars, childVars, ctxDone, wg>>
    /\ UNCHANGED <<sigVars, tuiVars, pollVars>>
    /\ UNCHANGED callVars

\* What the local endpoint does with the forwarded request: "ok" is an answer
\* invoke() accepts, "invalid_response" a 200 application/proto answer whose
\* body is not a RunResponse.
ForwardOutcomes == {"ok"} \cup (LocalFailures \ {"invalid_request"})

\* Mutant: a response body that does not parse is forwarded all the same.
ForwardError_lenient(o) ==
    IF o \in {"ok", "invalid_response"} THEN "none" ELSE o

\* The error invoke() returns for an outcome of the local round trip.
ForwardError(o) ==
    IF o = "ok" THEN "none" ELSE o

\* Mutant: a transport error of the local endpoint is not shown to the observer.
InvForward_silentError(r, o) ==
    /\ Alive /\ invPc[r] = "forward"
    /\ invPc' = [invPc EXCEPT ![r] = IF ForwardError(o) = "none" THEN "post" ELSE "failed"]
    /\ invErr' = [invErr EXCEPT ![r] = ForwardError(o)]
    /\ localRes' = [localRes EXCEPT ![r] = o]
    /\ obsResp' = [obsResp EXCEPT ![r] = IF tui /\ o # "unreachable" THEN @ + 1 ELSE @]
    /\ pwLive' = [pwLive EXCEPT ![r] = (ForwardError(o) = "none")]
    /\ UNCHANGED <<posts, cleanups, obsReq>>
    /\ UNCHANGED <<mainVars, procState, childVars, ctxDone, wg>>
    /\ UNCHANGED <<sigVars, tuiVars, pollVars>>
    /\ UNCHANGED callVars

\* client.Do(endpointReq), buffering of the response body and parsing of a
\* 200 application/proto body; whatever the outcome, one
\* observer.ObserveResponse call if there is an observer; on success the pipe
\* writer goroutine starts.
InvForward(r, o) ==
    /\ Alive /\ invPc[r] = "forward"
    /\ invPc' = [invPc EXCEPT ![r] = IF ForwardError(o) = "none" THEN "post" ELSE "failed"]
    /\ invErr' = [invErr EXCEPT ![r] = ForwardError(o)]
    /\ localRes' = [localRes EXCEPT ![r] = o]
    /\ obsResp' = [obsResp EXCEPT ![r] = IF tui THEN @ + 1 ELSE @]
    /\ pwLive' = [pwLive EXCEPT ![r] = (ForwardError(o) = "none")]
    /\ UNCHANGED <<posts, cleanups, obsReq>>
    /\ UNCHANGED <<mainVars, procState, childVars, ctxDone, wg>>
    /\ UNCHANGED <<sigVars, tuiVars, pollVars>>
    /\ UNCHANGED callVars

PostOutcomes == {"202", "404", "status", "neterr"}

\* The error invoke() returns for an outcome of the response POST.
PostError(o) ==
    IF o \in {"202", "404"} THEN "none" ELSE PostFailure

\* Mutant: a failed response POST is retried once.
InvPost_retry(r, o, blocked) ==
    /\ Alive /\ invPc[r] = "post"
    /\ blocked => o = "neterr"
    /\ posts' = [posts EXCEPT ![r] = @ + 1]
    /\ invErr' = [invErr EXCEPT ![r] = PostError(o)]
    /\ invPc' = [invPc EXCEPT ![r] = IF PostError(o) = "none" THEN "done"
                                     ELSE IF posts[r] = 0 THEN "post" ELSE "failed"]
    /\ wg' = IF PostError(o) = "none" THEN wg - 1 ELSE wg
    /\ pwLive' = [pwLive EXCEPT ![r] = blocked]
    /\ UNCHANGED <<cleanups, localRes, obsReq, obsResp>>
    /\ UNCHANGED <<mainVars, procState, childVars, ctxDone>>
    /\ UNCHANGED <<sigVars, tuiVars, pollVars>>
    /\ UNCHANGED callVars

\* Mutant: the goroutine cleans up whatever invoke() returned.
InvPost_alwaysCleanup(r, o, blocked) ==
    /\ Alive /\ invPc[r] = "post"
    /\ blocked => o = "neterr"
    /\ posts' = [posts EXCEPT ![r] = @ + 1]
    /\ invErr' = [invErr EXCEPT ![r] = PostError(o)]
    /\ invPc' = [invPc EXCEPT ![r] = "failed"]
    /\ pwLive' = [pwLive EXCEPT ![r] = blocked]
    /\ UNCHANGED <<cleanups, wg, localRes, obsReq, obsResp>>
    /\ UNCHANGED <<mainVars, procState, childVars, ctxDone>>
    /\ UNCHANGED <<sigVars, tuiVars, pollVars>>
    /\ UNCHANGED callVars

\* client.Do(bridgePostReq): the single response POST. With a nil error the
\* goroutine returns. The pipe writer ends once the body was read; after a
\* transport error it may stay blocked on the pipe (blocked = TRUE).
InvPost(r, o, blocked) ==
    /\ Alive /\ invPc[r] = "post"
    /\ blocked => o = "neterr"
    /\ posts' = [posts EXCEPT ![r] = @ + 1]
    /\ invErr' = [invErr EXCEPT ![r] = PostError(o)]
    /\ invPc' = [invPc EXCEPT ![r] = IF PostError(o) = "none" THEN "done" ELSE "failed"]
    /\ wg' = IF PostError(o) = "none" THEN wg - 1 ELSE wg
    /\ pwLive' = [pwLive EXCEPT ![r] = blocked]
    /\ UNCHANGED <<cleanups, localRes, obsReq, obsResp>>
    /\ UNCHANGED <<mainVars, procState, childVars, ctxDone>>
    /\ UNCHANGED <<sigVars, tuiVars, pollVars>>
    /\ UNCHANGED callVars

\* Mutant: the cleanup is issued on the run context.
CleanupCtxDone_run(runDone) == runDone

\* ctx, cancel := context.WithTimeout(context.Background(), cleanupTimeout):
\* whether the context of the cleanup is done when the DELETE is issued, given
\* whether the run context is.
CleanupCtxDone(runDone) == FALSE

\* if err != nil { cleanup(ctx, ...) }: the DELETE is sent unless its context is
\* done; the result is only logged, and the goroutine returns.
InvCleanup(r) ==
    /\ Alive /\ invPc[r] = "failed"
    /\ cleanups' = [cleanups EXCEPT ![r] = IF CleanupCtxDone(ctxDone) THEN @ ELSE @ + 1]
    /\ invPc' = [invPc EXCEPT ![r] = "done"]
    /\ wg' = wg - 1
    /\ UNCHANGED <<invErr, posts, pwLive, localRes, obsReq, obsResp>>
    /\ UNCHANGED <<mainVars, procState, childVars, ctxDone>>
    /\ UNCHANGED <<sigVars, tuiVars, pollVars>>
    /\ UNCHANGED callVars

----------------------------------------------------------------------------
\* The function call model of the TUI (cli/run_default.go).

\* t.calls[id]: the entry of the map, or the zero functionCall.
Call(cs, id) == IF id \in DOMAIN cs THEN cs[id] ELSE NewCall

\* t.calls[id] = n
Put(cs, id, n) == [x \in (DOMAIN cs) \cup {id} |-> IF x = id THEN n ELSE cs[x]]

\* The RunRequests shown to the observer; the times are optional (ZeroTime
\* is a nil timestamp).
RunRequests ==
    [root : Ids, parent : Ids \cup {NoId}, id : Ids, function : RequestFunctions,
     creationTime : {ZeroTime}, expirationTime : {ZeroTime}]

Statuses == {"OK", "TEMPORARY_ERROR", "INCOMPATIBLE_STATE", "PERMANENT_ERROR"}

\* The RunResponses of the local endpoint: a status and a directive, which is
\* Exit (with a tail call, or with a result that may carry an error), Poll or
\* absent.
RunResponses ==
    {r \in [status : Statuses, directive : {"exit", "poll", "none"},
            tailCall : {""} \cup TailCallFunctions, errorType : BOOLEAN] :
        /\ r.tailCall # "" => r.directive = "exit"
        /\ r.errorType => (r.directive = "exit" /\ r.tailCall = "" /\ r.status # "OK")}

NoRes == [status |-> "nil"]

\* The (err, httpRes, res) triples invoke() passes to ObserveResponse; http is
\* the status code of httpRes, 0 for a nil httpRes.
Responses ==
    {r \in [err : BOOLEAN, http : {0, 200, 404, 500}, res : RunResponses \cup {NoRes}] :
        \/ r.err /\ r.http \in {0, 200} /\ r.res = NoRes
        \/ ~r.err /\ r.http = 200 /\ r.res # NoRes
        \/ ~r.err /\ r.http \in {404, 500} /\ r.res = NoRes}

terminalStatus(status) ==
    status \notin {"TIMEOUT", "THROTTLED", "TEMPORARY_ERROR", "INCOMPATIBLE_STATE",
                   "DNS_ERROR", "TCP_ERROR", "TLS_ERROR", "HTTP_ERROR"}

\* Mutant: no 5xx code is terminal.
terminalHTTPStatusCode_no5xx(code) ==
    CASE code \div 100 = 4 -> code # 408 /\ code # 429
      [] code \div 100 = 5 -> FALSE
      [] OTHER -> TRUE

\* Mutant: the codes outside 4xx and 5xx are not terminal.
terminalHTTPStatusCode_defaultRetry(code) ==
    CASE code \div 100 = 4 -> code # 408 /\ code # 429
      [] code \div 100 = 5 -> code = 501
      [] OTHER -> FALSE

\* terminalHTTPStatusCode(code)
terminalHTTPStatusCode(code) ==
    CASE code \div 100 = 4 -> code # 408 /\ code # 429
      [] code \div 100 = 5 -> code = 501
      [] OTHER -> TRUE

\* functionCall.attempt()
attempt(n) ==
    IF n.suspended THEN Len(n.timeline) - n.polls + 1
    ELSE Len(n.timeline) - n.polls

\* Mutant: a request of a call that is already running takes over its last
\* roundtrip.
UpsertCall_replaceLast(n, t, req) ==
    [n EXCEPT !.lastFunction = req.function,
              !.running = TRUE,
              !.suspended = FALSE,
              !.creationTime = IF req.creationTime # ZeroTime THEN req.creationTime
                               ELSE IF @ = ZeroTime THEN t ELSE @,
              !.expirationTime = IF req.expirationTime # ZeroTime
                                 THEN req.expirationTime ELSE @,
              !.timeline = IF n.running /\ n.timeline # <<>>
                           THEN [@ EXCEPT ![Len(@)] = [ts |-> t, rts |-> ZeroTime]]
                           ELSE Append(@, [ts |-> t, rts |-> ZeroTime])]

\* Mutant: a request starts the timeline of the call afresh.
UpsertCall_freshTimeline(n, t, req) ==
    [n EXCEPT !.lastFunction = req.function,
              !.running = TRUE,
              !.suspended = FALSE,
              !.creationTime = IF req.creationTime # ZeroTime THEN req.creationTime
                               ELSE IF @ = ZeroTime THEN t ELSE @,
              !.expirationTime = IF req.expirationTime # ZeroTime
                                 THEN req.expirationTime ELSE @,
              !.timeline = <<[ts |-> t, rts |-> ZeroTime]>>]

\* Mutant: a request leaves a suspended call suspended.
UpsertCall_keepSuspended(n, t, req) ==
    [n EXCEPT !.lastFunction = req.function,
              !.running = ~n.suspended,
              !.creationTime = IF req.creationTime # ZeroTime THEN req.creationTime
                               ELSE IF @ = ZeroTime THEN t ELSE @,
              !.expirationTime = IF req.expirationTime # ZeroTime
                                 THEN req.expirationTime ELSE @,
              !.timeline = Append(@, [ts |-> t, rts |-> ZeroTime])]

\* ObserveRequest, "Upsert the function call": the call n after the request
\* req was observed at time t.
UpsertCall(n, t, req) ==
    [n EXCEPT !.lastFunction = req.function,
              !.running = TRUE,
              !.suspended = FALSE,
              !.creationTime = IF req.creationTime # ZeroTime THEN req.creationTime
                               ELSE IF @ = ZeroTime THEN t ELSE @,
              !.expirationTime = IF req.expirationTime # ZeroTime
                                 THEN req.expirationTime ELSE @,
              !.timeline = Append(@, [ts |-> t, rts |-> ZeroTime])]

\* ObserveRequest, "Upsert the parent and link its child".
LinkChild(cs, parentID, id) ==
    LET parent == Call(cs, parentID)
    IN  Put(cs, parentID,
            IF id \in parent.children THEN parent
            ELSE [parent EXCEPT !.children = @ \cup {id},
                                !.orderedChildren = Append(@, id)])

\* Mutant: the reset of a call keeps its timeline.
ResetCall_keepTimeline(n, function) ==
    [NewCall EXCEPT !.lastFunction = function, !.timeline = n.timeline]

\* n = functionCall{lastFunction: function} // reset
ResetCall(n, function) ==
    [NewCall EXCEPT !.lastFunction = function]

\* Mutant: the status of a tail-call response decides done after the reset.
RespondCall_doneAfterReset(n, t, r) ==
    LET n0 == [n EXCEPT !.timeline[Len(n.timeline)].rts = t,
                        !.lastError = "none",
                        !.lastStatus = "UNSPECIFIED",
                        !.running = FALSE]
        n1 == CASE r.res.status = "OK" -> n0
                [] r.res.status = "INCOMPATIBLE_STATE" -> ResetCall(n0, n0.lastFunction)
                [] OTHER -> [n0 EXCEPT !.failures = @ + 1]
        n2 == [n1 EXCEPT !.lastStatus = r.res.status,
                         !.done = terminalStatus(r.res.status)]
        n3 == CASE r.res = NoRes /\ r.http # 0 ->
                       [n0 EXCEPT !.failures = @ + 1,
                                  !.lastError = "http",
                                  !.done = terminalHTTPStatusCode(r.http)]
                [] r.res = NoRes /\ r.err ->
                       [n0 EXCEPT !.failures = @ + 1, !.lastError = "err"]
                [] r.res = NoRes -> n0
                [] r.res.directive = "exit" /\ r.res.tailCall # "" ->
                       [ResetCall(n2, r.res.tailCall) EXCEPT !.done = n2.done]
                [] r.res.directive = "exit" /\ r.res.errorType ->
                       [n2 EXCEPT !.lastError = "type"]
                [] r.res.directive = "exit" -> n2
                [] r.res.directive = "poll" ->
                       [n1 EXCEPT !.suspended = TRUE, !.polls = @ + 1]
                [] OTHER -> n1
    IN  IF n3.done /\ n3.doneTime = ZeroTime THEN [n3 EXCEPT !.doneTime = t] ELSE n3

\* Mutant: a Poll directive counts the poll without suspending the call.
RespondCall_pollNotSuspended(n, t, r) ==
    LET n0 == [n EXCEPT !.timeline[Len(n.timeline)].rts = t,
                        !.lastError = "none",
                        !.lastStatus = "UNSPECIFIED",
                        !.running = FALSE]
        n1 == CASE r.res.status = "OK" -> n0
                [] r.res.status = "INCOMPATIBLE_STATE" -> ResetCall(n0, n0.lastFunction)
                [] OTHER -> [n0 EXCEPT !.failures = @ + 1]
        n2 == [n1 EXCEPT !.lastStatus = r.res.status,
                         !.done = terminalStatus(r.res.status)]
        n3 == CASE r.res = NoRes /\ r.http # 0 ->
                       [n0 EXCEPT !.failures = @ + 1,
                                  !.lastError = "http",
                                  !.done = terminalHTTPStatusCode(r.http)]
                [] r.res = NoRes /\ r.err ->
                       [n0 EXCEPT !.failures = @ + 1, !.lastError = "err"]
                [] r.res = NoRes -> n0
                [] r.res.directive = "exit" /\ r.res.tailCall # "" ->
                       ResetCall(n2, r.res.tailCall)
                [] r.res.directive = "exit" /\ r.res.errorType ->
                       [n2 EXCEPT !.lastError = "type"]
                [] r.res.directive = "exit" -> n2
                [] r.res.directive = "poll" ->
                       [n1 EXCEPT !.polls = @ + 1]
                [] OTHER -> n1
    IN  IF n3.done /\ n3.doneTime = ZeroTime THEN [n3 EXCEPT !.doneTime = t] ELSE n3

\* Mutant: every response that leaves the call done stamps doneTime.
RespondCall_restampDone(n, t, r) ==
    LET n0 == [n EXCEPT !.timeline[Len(n.timeline)].rts = t,
                        !.lastError = "none",
                        !.lastStatus = "UNSPECIFIED",
                        !.running = FALSE]
        n1 == CASE r.res.status = "OK" -> n0
                [] r.res.status = "INCOMPATIBLE_STATE" -> ResetCall(n0, n0.lastFunction)
                [] OTHER -> [n0 EXCEPT !.failures = @ + 1]
        n2 == [n1 EXCEPT !.lastStatus = r.res.status,
                         !.done = terminalStatus(r.res.status)]
        n3 == CASE r.res = NoRes /\ r.http # 0 ->
                       [n0 EXCEPT !.failures = @ + 1,
                                  !.lastError = "http",
                                  !.done = terminalHTTPStatusCode(r.http)]
                [] r.res = NoRes /\ r.err ->
                       [n0 EXCEPT !.failures = @ + 1, !.lastError = "err"]
                [] r.res = NoRes -> n0
                [] r.res.directive = "exit" /\ r.res.tailCall # "" ->
                       ResetCall(n2, r.res.tailCall)
                [] r.res.directive = "exit" /\ r.res.errorType ->
                       [n2 EXCEPT !.lastError = "type"]
                [] r.res.directive = "exit" -> n2
                [] r.res.directive = "poll" ->
                       [n1 EXCEPT !.suspended = TRUE, !.polls = @ + 1]
                [] OTHER -> n1
    IN  IF n3.done THEN [n3 EXCEPT !.doneTime = t] ELSE n3

\* Mutant: a RunResponse with an error status is not counted as a failure.
RespondCall_noFailureCount(n, t, r) ==
    LET n0 == [n EXCEPT !.timeline[Len(n.timeline)].rts = t,
                        !.lastError = "none",
                        !.lastStatus = "UNSPECIFIED",
                        !.running = FALSE]
        n1 == CASE r.res.status = "OK" -> n0
                [] r.res.status = "INCOMPATIBLE_STATE" -> ResetCall(n0, n0.lastFunction)
                [] OTHER -> n0
        n2 == [n1 EXCEPT !.lastStatus = r.res.status,
                         !.done = terminalStatus(r.res.status)]
        n3 == CASE r.res = NoRes /\ r.http # 0 ->
                       [n0 EXCEPT !.failures = @ + 1,
                                  !.lastError = "http",
                                  !.done = terminalHTTPStatusCode(r.http)]
                [] r.res = NoRes /\ r.err ->
                       [n0 EXCEPT !.failures = @ + 1, !.lastError = "err"]
                [] r.res = NoRes -> n0
                [] r.res.directive = "exit" /\ r.res.tailCall # "" ->
                       ResetCall(n2, r.res.tailCall)
                [] r.res.directive = "exit" /\ r.res.errorType ->
                       [n2 EXCEPT !.lastError = "type"]
                [] r.res.directive = "exit" -> n2
                [] r.res.directive = "poll" ->
                       [n1 EXCEPT !.suspended = TRUE, !.polls = @ + 1]
                [] OTHER -> n1
    IN  IF n3.done /\ n3.doneTime = ZeroTime THEN [n3 EXCEPT !.doneTime = t] ELSE n3

\* ObserveResponse on a call n with a non-empty timeline: the call after the
\* response r was observed at time t.
RespondCall(n, t, r) ==
    LET n0 == [n EXCEPT !.timeline[Len(n.timeline)].rts = t,
                        !.lastError = "none",
                        !.lastStatus = "UNSPECIFIED",
                        !.running = FALSE]
        n1 == CASE r.res.status = "OK" -> n0
                [] r.res.status = "INCOMPATIBLE_STATE" -> ResetCall(n0, n0.lastFunction)
                [] OTHER -> [n0 EXCEPT !.failures = @ + 1]
        n2 == [n1 EXCEPT !.lastStatus = r.res.status,
                         !.done = terminalStatus(r.res.status)]
        n3 == CASE r.res = NoRes /\ r.http # 0 ->
                       [n0 EXCEPT !.failures = @ + 1,
                                  !.lastError = "http",
                                  !.done = terminalHTTPStatusCode(r.http)]
                [] r.res = NoRes /\ r.err ->
                       [n0 EXCEPT !.failures = @ + 1, !.lastError = "err"]
                [] r.res = NoRes -> n0
                [] r.res.directive = "exit" /\ r.res.tailCall # "" ->
                       ResetCall(n2, r.res.tailCall)
                [] r.res.directive = "exit" /\ r.res.errorType ->
                       [n2 EXCEPT !.lastError = "type"]
                [] r.res.directive = "exit" -> n2
                [] r.res.directive = "poll" ->
                       [n1 EXCEPT !.suspended = TRUE, !.polls = @ + 1]
                [] OTHER -> n1
    IN  IF n3.done /\ n3.doneTime = ZeroTime THEN [n3 EXCEPT !.doneTime = t] ELSE n3

\* Mutant: the parent is looked up in the model as it was before the call.
parentMissing_beforeUpsert(before, after, req) ==
    /\ req.parent # NoId
    /\ req.parent \notin DOMAIN before
    /\ req.parent # req.root

\* parent, ok := t.calls[parentID]; !ok && parentID != rootID: the lookup
\* comes after the upserts of the root and of the call.
parentMissing(before, after, req) ==
    /\ req.parent # NoId
    /\ req.parent \notin DOMAIN after
    /\ req.parent # req.root

\* TUI.ObserveRequest(now, req). It panics, after the upserts of the root and
\* of the call, when the parent is not in t.calls (it then differs from the
\* root, which was upserted).
ObserveRequest(req) ==
    /\ Alive /\ now <= MaxObs
    /\ LET cs1 == Put(calls, req.root, Call(calls, req.root))
           cs2 == Put(cs1, req.id, UpsertCall(Call(cs1, req.id), now, req))
           missing == parentMissing(calls, cs2, req)
       IN  /\ roots' = roots \cup {req.root}
           /\ orderedRoots' = IF req.root \in roots THEN orderedRoots
                              ELSE Append(orderedRoots, req.root)
           /\ calls' = IF missing \/ req.parent = NoId THEN cs2
                       ELSE LinkChild(cs2, req.parent, req.id)
           /\ obsPanic' = IF missing THEN "not implemented" ELSE obsPanic
           /\ procState' = IF missing THEN "panicked" ELSE procState
    /\ now' = now + 1
    /\ inflight' = [inflight EXCEPT ![req.id] = @ + 1]
    /\ observed' = [observed EXCEPT ![req.id] = @ + 1]
    /\ lastOp' = [op |-> "request", id |-> req.id, req |-> req]
    /\ linked' = IF req.parent \in {NoId, req.root} THEN linked
                 ELSE linked \cup {<<req.root, req.parent, req.id>>}
    /\ UNCHANGED <<rows, ui>>
    /\ UNCHANGED <<mainVars, childVars, ctxDone, wg, sigVars, tuiVars, pollVars, invVars>>

\* TUI.ObserveResponse(now, req, err, httpRes, res), called by an invocation
\* that has shown the request of the call id before. Indexing the last entry
\* of an empty timeline panics.
ObserveResponse(id, r) ==
    /\ Alive /\ now <= MaxObs
    /\ inflight[id] > 0
    /\ LET n == Call(calls, id)
       IN  IF n.timeline = <<>>
           THEN /\ obsPanic' = "index out of range"
                /\ procState' = "panicked"
                /\ UNCHANGED calls
           ELSE /\ calls' = Put(calls, id, RespondCall(n, now, r))
                /\ UNCHANGED <<obsPanic, procState>>
    /\ now' = now + 1
    /\ inflight' = [inflight EXCEPT ![id] = @ - 1]
    /\ lastOp' = [op |-> "response", id |-> id, res |-> r]
    /\ UNCHANGED <<roots, orderedRoots, observed, linked, rows, ui>>
    /\ UNCHANGED <<mainVars, childVars, ctxDone, wg, sigVars, tuiVars, pollVars, invVars>>

\* statusString(status)
statusString(status) ==
    CASE status = "OK" -> "OK"
      [] status = "TEMPORARY_ERROR" -> "Temporary error"
      [] status = "PERMANENT_ERROR" -> "Permanent error"
      [] status = "INCOMPATIBLE_STATE" -> "Incompatible state"
      [] OTHER -> status

\* functionCall.status(now): the style, the icon and the status text of the
\* call, and the call as the method leaves it (it marks an expired call).
status(n, t) ==
    LET expired == /\ ~n.running /\ ~n.suspended /\ ~n.done
                   /\ n.expirationTime # ZeroTime /\ n.expirationTime < t
        m == IF expired
             THEN [n EXCEPT !.lastError = "Expired", !.done = TRUE,
                            !.doneTime = n.expirationTime]
             ELSE n
        style == CASE n.running -> "pending"
                   [] n.suspended -> "suspended"
                   [] n.done -> IF n.lastStatus = "OK" THEN "ok" ELSE "error"
                   [] expired -> "error"
                   [] n.failures > 0 -> "retry"
                   [] OTHER -> "pending"
        icon == CASE n.running \/ n.suspended -> "pending"
                  [] n.done -> IF n.lastStatus = "OK" THEN "success" ELSE "failure"
                  [] expired -> "failure"
                  [] OTHER -> "pending"
        text == CASE m.running -> "Running"
                  [] m.suspended -> "Suspended"
                  [] m.lastError # "none" -> m.lastError
                  [] m.lastStatus # "UNSPECIFIED" -> statusString(m.lastStatus)
                  [] OTHER -> "Pending"
    IN  [style |-> style, icon |-> icon, status |-> text, n |-> m]

\* n.timeline[0] in duration panics: a creation time and an empty timeline.
durationPanics(n) ==
    n.creationTime # ZeroTime /\ n.timeline = <<>>

\* functionCall.duration(now), where it does not panic.
duration(n, t) ==
    IF n.creationTime = ZeroTime \/ durationPanics(n) THEN 0
    ELSE LET start == IF n.creationTime < n.timeline[1].ts THEN n.creationTime
                      ELSE n.timeline[1].ts
             end == IF ~n.done THEN t ELSE n.doneTime
         IN  IF end - start > 0 THEN end - start ELSE 0

\* The calls below the calls of S in the tree, at most k levels down.
RECURSIVE Descendants(_, _, _)
Descendants(cs, S, k) ==
    IF k = 0 THEN S
    ELSE Descendants(cs, S \cup UNION {Call(cs, x).children : x \in S}, k - 1)

\* buildRows would recurse for ever: a call shown in the tree is below itself.
CyclicTree(cs, rs) ==
    LET depth == Cardinality(DOMAIN cs)
    IN  \E x \in Descendants(cs, rs, depth) :
            x \in Descendants(cs, Call(cs, x).children, depth)

\* TUI.buildRows(now, id, isLast, rows): the row of the call, from a copy of
\* its entry, followed by the rows of its children in order.
RECURSIVE buildRows(_, _, _)
RECURSIVE childRows(_, _, _, _)
buildRows(cs, t, id) ==
    LET st == status(Call(cs, id), t)
    IN  <<[id |-> id,
           function |-> IF st.n.lastFunction # "" THEN st.n.lastFunction ELSE "(?)",
           attempt |-> attempt(st.n),
           duration |-> duration(st.n, t),
           style |-> st.style,
           icon |-> st.icon,
           status |-> st.status]>>
        \o childRows(cs, t, st.n.orderedChildren, 1)

childRows(cs, t, kids, i) ==
    IF i > Len(kids) THEN <<>>
    ELSE buildRows(cs, t, kids[i]) \o childRows(cs, t, kids, i + 1)

\* strconv.Itoa(n) for 0 <= n < 100, as the sequence of its characters.
DigitChars == <<"0", "1", "2", "3", "4", "5", "6", "7", "8", "9">>

Itoa(n) ==
    IF n < 10 THEN <<DigitChars[n + 1]>>
    ELSE <<DigitChars[(n \div 10) + 1], DigitChars[(n % 10) + 1]>>

\* strings.TrimSpace(s)
RECURSIVE TrimLeft(_)
TrimLeft(str) ==
    IF str # <<>> /\ Head(str) = " " THEN TrimLeft(Tail(str)) ELSE str

RECURSIVE TrimRight(_)
TrimRight(str) ==
    IF str # <<>> /\ str[Len(str)] = " "
    THEN TrimRight(SubSeq(str, 1, Len(str) - 1))
    ELSE str

TrimSpace(str) == TrimRight(TrimLeft(str))

\* var rows rowBuffer: no backing array, no row, seq = 0. mem holds the
\* backing arrays allocated so far (the ids of the rows in their slots), arr
\* the index of the array b.rows uses (0 for none), sel the array and the
\* slot t.selected points into (<<0, 0>> for nil).
NewRowBuffer ==
    [mem |-> <<>>, arr |-> 0, cap |-> 0, len |-> 0, seq |-> 0, sel |-> <<0, 0>>]

\* rowBuffer.add(r): b.seq++, then append(b.rows, r), which writes the next
\* slot of the backing array when there is room and otherwise moves the rows
\* to a new array of twice the capacity.
RowBufferAdd(b, id) ==
    IF b.len < b.cap
    THEN [b EXCEPT !.mem[b.arr][b.len + 1] = id, !.len = @ + 1, !.seq = @ + 1]
    ELSE LET newcap == IF b.cap = 0 THEN 1 ELSE 2 * b.cap
             grown == [i \in 1..newcap |->
                          IF i <= b.len THEN b.mem[b.arr][i]
                          ELSE IF i = b.len + 1 THEN id ELSE NoId]
         IN  [b EXCEPT !.mem = Append(@, grown), !.arr = Len(b.mem) + 1,
                       !.cap = newcap, !.len = @ + 1, !.seq = @ + 1]

RECURSIVE RowBufferAddAll(_, _, _)
RowBufferAddAll(b, rs, i) ==
    IF i > Len(rs) THEN b
    ELSE RowBufferAddAll(RowBufferAdd(b, rs[i].id), rs, i + 1)

\* TUI.tableRowView for the rows i.. of the buffer: in select mode the row
\* whose index is the trimmed text of the input becomes the selection,
\* t.selected = &r.id, a pointer into the backing array.
RECURSIVE tableRowView(_, _, _, _)
tableRowView(b, i, selectMode, input) ==
    IF i > b.len THEN b
    ELSE LET index == b.seq - b.len + i
             hit == /\ selectMode
                    /\ TrimSpace(input) # <<>>
                    /\ Itoa(index) = TrimSpace(input)
         IN  tableRowView(IF hit THEN [b EXCEPT !.sel = <<b.arr, i>>] ELSE b,
                          i + 1, selectMode, input)

\* The loop of functionsView over t.orderedRoots from the k-th on: buildRows,
\* tableRowView of every row, rows.reset().
RECURSIVE renderRoots(_, _, _, _, _, _, _)
renderRoots(cs, t, rs, k, b, selectMode, input) ==
    IF k > Len(rs) THEN b
    ELSE LET built == RowBufferAddAll(b, buildRows(cs, t, rs[k]), 1)
             shown == tableRowView(built, 1, selectMode, input)
         IN  renderRoots(cs, t, rs, k + 1, [shown EXCEPT !.len = 0], selectMode, input)

\* *t.selected when functionsView returns: what the slot t.selected points to
\* holds then, NoId for a nil t.selected.
selectedAfter(cs, t, rs, selectMode, input) ==
    LET b == renderRoots(cs, t, rs, 1, NewRowBuffer, selectMode, input)
    IN  IF b.sel = <<0, 0>> THEN NoId ELSE b.mem[b.sel[1]][b.sel[2]]

\* The panic functionsView ends in, "none" if it returns: the recursion of
\* buildRows overflows the stack on a cyclic tree, and duration indexes the
\* timeline.
functionsViewPanic(cs, rs) ==
    IF CyclicTree(cs, rs) THEN "stack overflow"
    ELSE IF \E x \in Descendants(cs, rs, Cardinality(DOMAIN cs)) :
                durationPanics(Call(cs, x))
    THEN "index out of range"
    ELSE "none"

\* TUI.functionsView(now), called by View when there are roots: t.selected is
\* cleared, then the rows of every root in order are built and rendered. The
\* recursion of buildRows overflows the stack on a cyclic tree.
FunctionsView ==
    /\ Alive /\ now <= MaxObs
    /\ roots # {}
    /\ LET panic == functionsViewPanic(calls, roots) IN
       /\ obsPanic' = IF panic # "none" THEN panic ELSE obsPanic
       /\ procState' = IF panic # "none" THEN "panicked" ELSE procState
       /\ rows' = IF panic # "none" THEN rows
                  ELSE childRows(calls, now, orderedRoots, 1)
       /\ ui' = [ui EXCEPT !.selected =
                     IF panic # "none" THEN NoId
                     ELSE selectedAfter(calls, now, orderedRoots,
                                        ui.selectMode, ui.selection)]
    /\ now' = now + 1
    /\ lastOp' = [op |-> "render", at |-> now]
    /\ UNCHANGED <<calls, roots, orderedRoots, inflight, observed, linked>>
    /\ UNCHANGED <<mainVars, childVars, ctxDone, wg, sigVars, tuiVars, pollVars, invVars>>

----------------------------------------------------------------------------
\* The event loop of the TUI program: Update for every message, View after
\* every Update (cli/run_default.go).

\* The keys whose rune the text input inserts, and the keys pressed.
Runes == {"1", "2", "q", "s", " "}

Keys == {"esc", "tab", "enter", "ctrl+c"} \cup Runes

Messages == Keys \cup {"tick", "focusSelect", "windowSize"}

\* (t.activeTab + 1) % tabCount
nextTab(tab) ==
    CASE tab = "functions" -> "logs"
      [] tab = "logs" -> "detail"
      [] OTHER -> "functions"

\* Mutant: enter opens the detail tab whether or not a row is selected.
selectModeKey_enterAlways(u, k) ==
    CASE k = "esc" -> [u EXCEPT !.selectMode = FALSE]
      [] k = "tab" -> [u EXCEPT !.selectMode = FALSE, !.activeTab = "functions",
                                !.tailMode = TRUE]
      [] k = "enter" -> [u EXCEPT !.selectMode = FALSE, !.activeTab = "detail"]
      [] k = "ctrl+c" -> [u EXCEPT !.quit = TRUE]
      [] OTHER -> u

\* case tea.KeyMsg of Update in select mode.
selectModeKey(u, k) ==
    CASE k = "esc" -> [u EXCEPT !.selectMode = FALSE]
      [] k = "tab" -> [u EXCEPT !.selectMode = FALSE, !.activeTab = "functions",
                                !.tailMode = TRUE]
      [] k = "enter" -> IF u.selected # NoId
                        THEN [u EXCEPT !.selectMode = FALSE, !.activeTab = "detail"]
                        ELSE u
      [] k = "ctrl+c" -> [u EXCEPT !.quit = TRUE]
      [] OTHER -> u

\* Mutant: the key s asks for select mode whatever has been observed.
normalModeKey_alwaysSelect(u, k, ncalls) ==
    CASE k = "esc" -> IF u.activeTab = "detail"
                      THEN [u EXCEPT !.activeTab = "functions", !.tailMode = TRUE]
                      ELSE [u EXCEPT !.quit = TRUE]
      [] k \in {"ctrl+c", "q"} -> [u EXCEPT !.quit = TRUE]
      [] k = "s" -> [u EXCEPT !.pending = @ + 1,
                              !.unlocked = {"calls", "err"}]
      [] k = "tab" ->
             [u EXCEPT !.selectMode = FALSE,
                       !.activeTab = IF nextTab(@) = "detail" /\ u.selected = NoId
                                     THEN "functions" ELSE nextTab(@),
                       !.tailMode = TRUE]
      [] OTHER -> u

\* case tea.KeyMsg of Update outside select mode; ncalls is len(t.calls).
\* The key s reads t.calls and t.err, and Update does not take t.mu.
normalModeKey(u, k, ncalls) ==
    CASE k = "esc" -> IF u.activeTab = "detail"
                      THEN [u EXCEPT !.activeTab = "functions", !.tailMode = TRUE]
                      ELSE [u EXCEPT !.quit = TRUE]
      [] k \in {"ctrl+c", "q"} -> [u EXCEPT !.quit = TRUE]
      [] k = "s" -> [u EXCEPT !.pending = IF ncalls > 0 /\ ~u.err THEN @ + 1 ELSE @,
                              !.unlocked = {"calls", "err"}]
      [] k = "tab" ->
             [u EXCEPT !.selectMode = FALSE,
                       !.activeTab = IF nextTab(@) = "detail" /\ u.selected = NoId
                                     THEN "functions" ELSE nextTab(@),
                       !.tailMode = TRUE]
      [] OTHER -> u

\* The switch of Update on the message.
handleMsg(u, m, ncalls) ==
    CASE m = "tick" -> u
      [] m = "focusSelect" ->
             [u EXCEPT !.selectMode = TRUE, !.selection = <<>>, !.pending = @ - 1]
      [] m = "windowSize" -> [u EXCEPT !.ready = TRUE]
      [] u.selectMode -> selectModeKey(u, m)
      [] OTHER -> normalModeKey(u, m, ncalls)

\* TUI.Update(msg): the switch on the message; unless it returned tea.Quit,
\* the message is then forwarded to the text input when select mode is on,
\* which inserts the rune of a key.
Update(m) ==
    /\ Alive /\ tui
    /\ ui.pc = "update"
    /\ m = "focusSelect" => ui.pending > 0
    /\ (m = "s" /\ ~ui.selectMode) => ui.pending < MaxPending
    /\ (m \in Runes /\ ui.selectMode) => Len(ui.selection) < MaxInput
    /\ LET u0 == [ui EXCEPT !.unlocked = {}]
           u1 == handleMsg(u0, m, Cardinality(DOMAIN calls))
           u2 == IF u1.selectMode /\ ~u1.quit /\ m \in Runes
                 THEN [u1 EXCEPT !.selection = Append(@, m)]
                 ELSE u1
       IN  ui' = [u2 EXCEPT !.pc = "view", !.msg = m]
    /\ UNCHANGED <<calls, roots, orderedRoots, now, inflight, observed, lastOp,
                   linked, rows, obsPanic, procState>>
    /\ UNCHANGED <<mainVars, childVars, ctxDone, wg, sigVars, tuiVars, pollVars, invVars>>

\* The panic View ends in, "none" if it returns: the functions view may
\* panic, and the detail tab dereferences t.selected and computes the
\* duration of the call.
viewPanic(u, cs, rs) ==
    CASE ~u.ready -> "none"
      [] u.activeTab = "functions" /\ rs # {} -> functionsViewPanic(cs, rs)
      [] u.activeTab = "detail" /\ u.selected = NoId -> "nil dereference"
      [] u.activeTab = "detail" /\ durationPanics(Call(cs, u.selected)) ->
             "index out of range"
      [] OTHER -> "none"

\* TUI.View(), under t.mu: the logo until the first window size and while
\* there is no root, the functions view, the detail view of *t.selected, or
\* the logs. After the View that follows a tea.Quit the program ends.
View ==
    /\ Alive /\ tui
    /\ ui.pc = "view"
    /\ LET panic == viewPanic(ui, calls, roots)
           functions == ui.ready /\ ui.activeTab = "functions" /\ roots # {}
           detail == ui.ready /\ ui.activeTab = "detail"
       IN  /\ obsPanic' = IF panic # "none" THEN panic ELSE obsPanic
           /\ procState' = IF panic # "none" THEN "panicked" ELSE procState
           /\ rows' = IF functions /\ panic = "none"
                      THEN childRows(calls, now, orderedRoots, 1)
                      ELSE rows
           /\ ui' = [ui EXCEPT
                        !.selected =
                            IF ~functions THEN @
                            ELSE IF panic # "none" THEN NoId
                            ELSE selectedAfter(calls, now, orderedRoots,
                                               ui.selectMode, ui.selection),
                        !.detail = IF detail /\ panic = "none" THEN ui.selected ELSE NoId,
                        !.unlocked = {},
                        !.msg = "none",
                        !.pc = IF ui.quit THEN "done" ELSE "update"]
    /\ lastOp' = [op |-> "view", at |-> now]
    /\ UNCHANGED <<calls, roots, orderedRoots, now, inflight, observed, linked>>
    /\ UNCHANGED <<mainVars, childVars, ctxDone, wg, sigVars, tuiVars, pollVars, invVars>>

\* TUI.SetError(err), under t.mu.
SetError ==
    /\ Alive /\ tui
    /\ ~ui.err
    /\ ui' = [ui EXCEPT !.err = TRUE]
    /\ UNCHANGED <<calls, roots, orderedRoots, now, inflight, observed, lastOp,
                   linked, rows, obsPanic, procState>>
    /\ UNCHANGED <<mainVars, childVars, ctxDone, wg, sigVars, tuiVars, pollVars, invVars>>

----------------------------------------------------------------------------
Next ==
    \/ StartOk
    \/ StartFail
    \/ \E e \in BOOLEAN : ChildExit(e)
    \/ WaitReturn
    \/ WgWaitReturn
    \/ ProcessExit
    \/ ScannerDone
    \/ DeliverSignal
    \/ HandleSignal
    \/ HandlerReturn
    \/ TuiQuit
    \/ TuiKilled
    \/ TuiInterrupt
    \/ PollerLoop
    \/ \E o \in PollOutcomes : PollReturn(o)
    \/ HandlePoll
    \/ Spawn
    \/ PollerSleep
    \/ \E r \in Requests, o \in ParseOutcomes : InvParse(r, o)
    \/ \E r \in Requests, o \in ForwardOutcomes : InvForward(r, o)
    \/ \E r \in Requests, o \in PostOutcomes, b \in BOOLEAN : InvPost(r, o, b)
    \/ \E r \in Requests : InvCleanup(r)

Spec == Init /\ [][Next]_vars

----------------------------------------------------------------------------
\* The relay on its own: no TUI and no OS signal, so the run ends by the child
\* exiting or failing to start; every outcome of the bridge and of the local
\* endpoint is allowed.
RelayInit == Init /\ ~tui /\ ~verbose

RelayNext ==
    \/ StartOk
    \/ StartFail
    \/ \E e \in BOOLEAN : ChildExit(e)
    \/ WaitReturn
    \/ WgWaitReturn
    \/ ProcessExit
    \/ HandlerReturn
    \/ PollerLoop
    \/ \E o \in PollOutcomes : PollReturn(o)
    \/ HandlePoll
    \/ Spawn
    \/ PollerSleep
    \/ \E r \in Requests, o \in ParseOutcomes : InvParse(r, o)
    \/ \E r \in Requests, o \in ForwardOutcomes : InvForward(r, o)
    \/ \E r \in Requests, o \in PostOutcomes, b \in BOOLEAN : InvPost(r, o, b)
    \/ \E r \in Requests : InvCleanup(r)

RelaySpec == RelayInit /\ [][RelayNext]_vars

\* The shutdown machinery on its own: signals, the TUI, the child and the
\* coordinator, with a bridge that has no work to deliver.
SignalNext ==
    \/ StartOk
    \/ StartFail
    \/ \E e \in BOOLEAN : ChildExit(e)
    \/ WaitReturn
    \/ WgWaitReturn
    \/ ProcessExit
    \/ ScannerDone
    \/ DeliverSignal
    \/ HandleSignal
    \/ HandlerReturn
    \/ TuiQuit
    \/ TuiKilled
    \/ TuiInterrupt
    \/ PollerLoop
    \/ \E o \in PollOutcomes \ {"200"} : PollReturn(o)
    \/ HandlePoll
    \/ PollerSleep

SignalSpec == Init /\ [][SignalNext]_vars

\* The end of a session that may have done work: no TUI, OS signals, a bridge
\* that delivers requests or has none, and invocations that all succeed.
ExitInit == Init /\ ~tui

ExitNext ==
    \/ StartOk
    \/ StartFail
    \/ \E e \in BOOLEAN : ChildExit(e)
    \/ WaitReturn
    \/ WgWaitReturn
    \/ ProcessExit
    \/ DeliverSignal
    \/ HandleSignal
    \/ HandlerReturn
    \/ PollerLoop
    \/ \E o \in {"200", "504"} : PollReturn(o)
    \/ HandlePoll
    \/ Spawn
    \/ \E r \in Requests : InvParse(r, "ok")
    \/ \E r \in Requests : InvForward(r, "ok")
    \/ \E r \in Requests : InvPost(r, "202", FALSE)

ExitSpec == ExitInit /\ [][ExitNext]_vars

\* The relay observed by the TUI: an interactive terminal, no OS signal other
\* than the interrupt the TUI sends when it ends; the bridge delivers requests
\* or has none, and every outcome of the local endpoint is allowed.
ObserverInit == Init /\ tui /\ ~verbose

ObserverNext ==
    \/ StartOk
    \/ StartFail
    \/ \E e \in BOOLEAN : ChildExit(e)
    \/ WaitReturn
    \/ WgWaitReturn
    \/ ProcessExit
    \/ HandleSignal
    \/ HandlerReturn
    \/ TuiQuit
    \/ TuiKilled
    \/ TuiInterrupt
    \/ PollerLoop
    \/ \E o \in {"200", "504"} : PollReturn(o)
    \/ HandlePoll
    \/ Spawn
    \/ \E r \in Requests, o \in ParseOutcomes : InvParse(r, o)
    \/ \E r \in Requests, o \in ForwardOutcomes : InvForward(r, o)
    \/ \E r \in Requests, o \in PostOutcomes : InvPost(r, o, FALSE)
    \/ \E r \in Requests : InvCleanup(r)

ObserverSpec == ObserverInit /\ [][ObserverNext]_vars

\* A session with the TUI that nobody interrupts: no OS signal and no quit by
\* the user, so the TUI ends only because the run context is cancelled; the
\* bridge delivers requests or has none, and every invocation succeeds.
OwnExitInit == Init /\ tui

OwnExitNext ==
    \/ StartOk
    \/ StartFail
    \/ \E e \in BOOLEAN : ChildExit(e)
    \/ WaitReturn
    \/ WgWaitReturn
    \/ ProcessExit
    \/ HandleSignal
    \/ HandlerReturn
    \/ TuiKilled
    \/ TuiInterrupt
    \/ PollerLoop
    \/ \E o \in {"200", "504"} : PollReturn(o)
    \/ HandlePoll
    \/ Spawn
    \/ \E r \in Requests : InvParse(r, "ok")
    \/ \E r \in Requests : InvForward(r, "ok")
    \/ \E r \in Requests : InvPost(r, "202", FALSE)

OwnExitSpec == OwnExitInit /\ [][OwnExitNext]_vars

\* The shutdown of a session with the TUI, under fair scheduling: OS signals,
\* a quit by the user, a bridge that delivers requests, has none or fails, a
\* local endpoint that answers or cannot be reached, and a response POST that
\* is accepted or fails.
LiveInit == Init /\ tui /\ ~verbose

LivePollOutcomes == {"200", "504", "neterr"}

LiveForwardOutcomes == {"ok", "unreachable"}

LivePostOutcomes == {"202", "neterr"}

LiveNext ==
    \/ StartOk
    \/ \E e \in BOOLEAN : ChildExit(e)
    \/ WaitReturn
    \/ WgWaitReturn
    \/ ProcessExit
    \/ DeliverSignal
    \/ HandleSignal
    \/ HandlerReturn
    \/ TuiQuit
    \/ TuiKilled
    \/ TuiInterrupt
    \/ PollerLoop
    \/ \E o \in LivePollOutcomes : PollReturn(o)
    \/ HandlePoll
    \/ Spawn
    \/ PollerSleep
    \/ \E r \in Requests, o \in ParseOutcomes : InvParse(r, o)
    \/ \E r \in Requests, o \in LiveForwardOutcomes : InvForward(r, o)
    \/ \E r \in Requests, o \in LivePostOutcomes : InvPost(r, o, FALSE)
    \/ \E r \in Requests : InvCleanup(r)

\* Every goroutine that can take a step eventually takes one, and every HTTP
\* call and sleep returns; the child, the signals and the user are under no
\* obligation.
LiveFairness ==
    /\ WF_vars(StartOk)
    /\ WF_vars(WaitReturn)
    /\ WF_vars(WgWaitReturn)
    /\ WF_vars(HandleSignal)
    /\ WF_vars(HandlerReturn)
    /\ WF_vars(TuiKilled)
    /\ WF_vars(TuiInterrupt)
    /\ WF_vars(PollerLoop)
    /\ WF_vars(\E o \in LivePollOutcomes : PollReturn(o))
    /\ WF_vars(HandlePoll)
    /\ WF_vars(Spawn)
    /\ WF_vars(PollerSleep)
    /\ \A r \in Requests :
          /\ WF_vars(\E o \in ParseOutcomes : InvParse(r, o))
          /\ WF_vars(\E o \in LiveForwardOutcomes : InvForward(r, o))
          /\ WF_vars(\E o \in LivePostOutcomes : InvPost(r, o, FALSE))
          /\ WF_vars(InvCleanup(r))

LiveSpec == LiveInit /\ [][LiveNext]_vars /\ LiveFairness

\* The TUI at work: the first request of a root call a, of a root call b and
\* of a child b of a, shown to the observer in any order, an error set, and
\* the messages of the event loop.
UiInit == Init /\ tui /\ ~verbose

UiRequests ==
    {req \in RunRequests :
        \/ req.parent = NoId /\ req.root = req.id
        \/ req.root = "a" /\ req.parent = "a" /\ req.id = "b"}

\* The first request of a call is shown to the observer.
ObserveFirstRequest(req) ==
    /\ observed[req.id] = 0
    /\ ObserveRequest(req)

UiNext ==
    \/ \E req \in UiRequests : ObserveFirstRequest(req)
    \/ \E m \in Messages : Update(m)
    \/ View
    \/ SetError

UiSpec == UiInit /\ [][UiNext]_vars

\* The function call model on its own: the observer is shown any sequence of
\* requests and, for the requests in flight, responses.
ModelInit == Init /\ tui /\ ~verbose

ModelNext ==
    \/ \E req \in RunRequests : ObserveRequest(req)
    \/ \E id \in Ids, r \in Responses : ObserveResponse(id, r)

ModelSpec == ModelInit /\ [][ModelNext]_vars

\* The rendering of the function call model: a root call and a child of it,
\* with or without an expiration time, their responses, and the functions view.
ExpirationTimes == {ZeroTime, 2}

RenderRequests ==
    {req \in [root : {"a"}, parent : {NoId, "a"}, id : Ids,
              function : RequestFunctions,
              creationTime : {ZeroTime}, expirationTime : ExpirationTimes] :
        (req.id = "a") <=> (req.parent = NoId)}

RenderResponses ==
    {r \in Responses :
        \/ r.res = NoRes /\ r.http = 500
        \/ /\ r.res # NoRes /\ r.res.status \in {"OK", "TEMPORARY_ERROR"}
           /\ r.res.tailCall = "" /\ ~r.res.errorType
           /\ r.res.directive \in {"exit", "poll"}}

RenderNext ==
    \/ \E req \in RenderRequests : ObserveRequest(req)
    \/ \E id \in Ids, r \in RenderResponses : ObserveResponse(id, r)
    \/ FunctionsView

RenderSpec == ModelInit /\ [][RenderNext]_vars

\* The responses of the local endpoint that are not a RunResponse: every
\* three-digit status code of 1xx to 5xx, with or without an error of reading
\* the body, observed on a root call.
HttpCodes == 100..599

HttpRequest ==
    [root |-> "a", parent |-> NoId, id |-> "a", function |-> "f",
     creationTime |-> ZeroTime, expirationTime |-> ZeroTime]

HttpResponses == [err : BOOLEAN, http : HttpCodes, res : {NoRes}]

HttpNext ==
    \/ ObserveRequest(HttpRequest)
    \/ \E r \in HttpResponses : ObserveResponse("a", r)

HttpSpec == ModelInit /\ [][HttpNext]_vars

----------------------------------------------------------------------------
\* Properties of the relay.

\* C1: for every request a successful poll delivered, at most one response
\* POST carrying its requestId is issued, whatever the interleaving of the
\* invocations with the shutdown of the run.
C1_AtMostOnePost ==
    \A r \in Requests : posts[r] <= 1

\* A response was POSTed after the run context had been cancelled, while
\* another invocation is still in flight.
C1_Witness ==
    \E r, q \in Requests :
        /\ r # q
        /\ posts[r] = 1 /\ invPc[r] = "done"
        /\ invPc[q] = "post"
        /\ ctxDone

\* A successful poll the poller has not counted yet / not spawned yet.
PollUncounted == IF pollerPc = "got" /\ pollRes = "200" THEN 1 ELSE 0
PollUnspawned == (pollerPc = "got" /\ pollRes = "200") \/ pollerPc = "spawn"

\* C2: every poll answered 200 increments successfulPolls by exactly one and
\* spawns exactly one invocation for the request it delivered, no request is
\* invoked twice or dropped, and successfulPolls never decreases.
C2_PollAccounting ==
    /\ [](/\ successfulPolls = delivered - PollUncounted
          /\ \A r \in Requests :
                spawns[r] = IF r <= delivered /\ ~(r = delivered /\ PollUnspawned)
                            THEN 1 ELSE 0
          /\ \A r \in Requests : (invPc[r] # "none") = (spawns[r] = 1))
    /\ [][/\ successfulPolls' >= successfulPolls
          /\ successfulPolls' <= successfulPolls + 1
          /\ \A r \in Requests : spawns'[r] >= spawns[r]]_vars

\* Every request was delivered, the last one while the run context was
\* already cancelled, and each was counted and given its invocation.
C2_Witness ==
    /\ delivered = MaxRequests
    /\ successfulPolls = MaxRequests
    /\ \A r \in Requests : spawns[r] = 1
    /\ invPc[MaxRequests] = "parse"
    /\ ctxDone

\* C3: an invocation that failed on the local side (invalid serialised
\* request, local endpoint unreachable, unreadable or unparsable local
\* response) issues the Cleanup DELETE for its request exactly once before
\* it ends, also when the run context is cancelled; no request is cleaned up
\* more than once.
C3_LocalFailureCleanedUp ==
    \A r \in Requests :
        /\ cleanups[r] <= 1
        /\ (invPc[r] = "done" /\ invErr[r] \in LocalFailures) => cleanups[r] = 1

\* An invocation failed locally, and its cleanup was sent with the run
\* context cancelled.
C3_Witness ==
    \E r \in Requests :
        /\ invPc[r] = "done" /\ invErr[r] \in LocalFailures
        /\ cleanups[r] = 1 /\ posts[r] = 0
        /\ ctxDone

\* C4 as claimed: a Cleanup DELETE is sent for a request only if its
\* invocation failed on the local side.
C4_CleanupOnlyOnLocalFailure ==
    \A r \in Requests : cleanups[r] > 0 => invErr[r] \in LocalFailures

\* C4, amended: a Cleanup DELETE is sent for a request only if invoke()
\* returned an error, which is a local-side failure or a failed response
\* POST; a request whose response POST was answered 202 or 404 never gets one.
C4_CleanupOnlyOnInvokeError ==
    \A r \in Requests :
        /\ cleanups[r] > 0 => invErr[r] \in LocalFailures \cup {PostFailure}
        /\ (invPc[r] = "done" /\ invErr[r] = "none") => cleanups[r] = 0

\* One request was cleaned up after its response POST failed, another was
\* answered and not cleaned up.
C4_Witness ==
    \E r, q \in Requests :
        /\ cleanups[r] = 1 /\ invErr[r] = PostFailure /\ posts[r] = 1
        /\ invPc[q] = "done" /\ invErr[q] = "none" /\ posts[q] = 1 /\ cleanups[q] = 0

\* Every goroutine the coordinator spawned has ended.
AllJoined ==
    /\ handlerPc = "done"
    /\ tuiPc \in {"off", "done"}
    /\ pollerPc = "done"
    /\ \A r \in Requests : invPc[r] \in {"none", "done"} /\ ~pwLive[r]
    /\ scanners = 0

\* C5: when run returns, on any return path, no goroutine the coordinator
\* spawned is still running.
C5_JoinedOnReturn ==
    mainPc = "returned" => AllJoined

\* C6: the poller's handling of a 504 leaves successfulPolls and the
\* invocations as they are and goes back to the top of the loop, where the
\* next poll is issued unless the run context is cancelled.
C6_GatewayTimeoutIsNoWork ==
    /\ [][(pollerPc = "got" /\ pollRes = "504" /\ pollerPc' # "got")
             => /\ pollerPc' = "loop"
                /\ successfulPolls' = successfulPolls
                /\ spawns' = spawns
                /\ invPc' = invPc]_vars
    /\ [][(pollerPc = "loop" /\ pollRes = "504" /\ ~ctxDone /\ pollerPc' # "loop")
             => pollerPc' = "polling"]_vars

\* A 504 was handled after a request had been delivered: the poller is back
\* at the top of its loop with the counter unchanged.
C6_Witness ==
    /\ pollerPc = "loop" /\ pollRes = "504"
    /\ ~ctxDone
    /\ delivered = 1 /\ successfulPolls = 1

\* C7: a poll answered 401 ends the poller, and once the poller has ended no
\* poll is issued and no invocation is spawned.
C7_AuthErrorStopsPoller ==
    /\ [][(pollerPc = "got" /\ pollRes = "401" /\ pollerPc' # "got")
             => pollerPc' = "done"]_vars
    /\ [](authFailed => pollerPc = "done")
    /\ [][pollerPc = "done"
             => (pollerPc' = "done" /\ spawns' = spawns /\ delivered' = delivered
                 /\ successfulPolls' = successfulPolls)]_vars

\* The poller stopped on an authError while the run goes on.
C7_Witness ==
    /\ authFailed /\ pollerPc = "done"
    /\ ~ctxDone /\ childState = "running"
    /\ delivered = 1

\* C8: once the poller has stopped on an authError the run context is
\* cancelled, without the child exiting or a signal arriving.
C8_AuthErrorCancelsRun ==
    (authFailed /\ childState = "running" /\ ~signaled) => ctxDone

\* C9: a poll that failed with a transport error or with a status other
\* than 200, 401 and 504 spawns nothing and leaves successfulPolls as it is;
\* unless the run context is cancelled the poller sleeps, goes back to the
\* top of the loop and issues the next poll.
C9_TransientErrorRetries ==
    /\ [][(pollerPc = "got" /\ pollRes \in {"other", "neterr"} /\ pollerPc' # "got")
             => /\ successfulPolls' = successfulPolls
                /\ spawns' = spawns
                /\ invPc' = invPc
                /\ ~ctxDone => pollerPc' = "sleep"]_vars
    /\ [][(pollerPc = "sleep" /\ pollerPc' # "sleep") => pollerPc' = "loop"]_vars
    /\ [][(pollerPc = "loop" /\ ~ctxDone /\ pollerPc' # "loop")
             => pollerPc' = "polling"]_vars

\* The poller sleeps after a transient failure that followed a delivery.
C9_Witness ==
    /\ pollerPc = "sleep" /\ pollRes \in {"other", "neterr"}
    /\ ~ctxDone
    /\ delivered = 1 /\ successfulPolls = 1

----------------------------------------------------------------------------
\* Properties of the shutdown machinery.

\* C10: of the signals the handler receives once the child was started, the
\* first sets signaled and sends SIGTERM to the child, every later one kills
\* the child; signaled is never cleared.
C10_SignalEscalation ==
    /\ [][(signals' < signals /\ childState # "notstarted")
             => /\ signaled'
                /\ termSent' = IF signaled THEN termSent ELSE termSent + 1
                /\ killSent' = IF signaled THEN killSent + 1 ELSE killSent]_vars
    /\ [][signaled => signaled']_vars
    /\ [](childState # "notstarted" => (termSent = IF signaled THEN 1 ELSE 0))

\* Three signals were handled: one SIGTERM, then two kills.
C10_Witness ==
    /\ signaled /\ termSent = 1 /\ killSent = 2
    /\ sigDelivered = MaxSignals

----------------------------------------------------------------------------
\* Properties of the exit semantics.

\* RunE returned after the child was started and has exited.
RunEnded == mainPc = "returned" /\ childState = "exited"

\* C11: a shutdown initiated by a signal ends with success: whenever the child
\* exits after a signal was forwarded (signaled = TRUE), run returns nil,
\* whatever the child's exit error and the number of successful polls.
C11_SignaledExitIsSuccess ==
    (RunEnded /\ signaled) => runResult = "ok"

\* The child was signalled and exited with an error before any successful
\* poll, and run returned nil.
C11_Witness ==
    /\ RunEnded /\ signaled /\ childErr /\ successfulPolls = 0
    /\ runResult = "ok"

\* C12 as stated: after a signal with at least one successful poll the
\* resumption hint with the session id is printed before run returns nil, and
\* with zero successful polls no hint is printed.
C12_HintAfterSuccessfulPoll ==
    RunEnded /\ signaled =>
        /\ runResult = "ok"
        /\ successfulPolls >= 1 => hint = BridgeSession
        /\ successfulPolls = 0 => hint = "none"

\* C12, amended: the hint with the session id is printed exactly when the run
\* was signalled, at least one poll succeeded and --verbose is not set; it is
\* printed by the time run returns nil and never before RunE returns.
C12_HintUnlessVerbose ==
    /\ mainPc # "returned" => hint = "none"
    /\ RunEnded /\ signaled =>
        /\ runResult = "ok"
        /\ (successfulPolls >= 1 /\ ~verbose) => hint = BridgeSession
        /\ (successfulPolls = 0 \/ verbose) => hint = "none"
    /\ RunEnded /\ ~signaled => hint = "none"

\* A signalled session that had polled successfully ended with the hint.
C12_Witness ==
    /\ RunEnded /\ signaled /\ successfulPolls >= 1 /\ ~verbose
    /\ hint = BridgeSession /\ runResult = "ok"

\* C13 as stated: a child that exits unsignalled before any successful poll,
\* with or without an error, makes run return the "command exited
\* unexpectedly" failure.
C13_EarlyExitIsUnexpected ==
    (RunEnded /\ ~signaled /\ successfulPolls = 0) => runResult = "unexpected_exit"

\* C13, amended: an unsignalled child that exits with an error makes run
\* return the "failed to invoke command" failure, whatever the number of
\* successful polls; one that exits without error before any successful poll
\* makes run return the "command exited unexpectedly" failure.
C13_UnsignaledExit ==
    /\ (RunEnded /\ ~signaled /\ childErr) => runResult = "failed_invoke"
    /\ (RunEnded /\ ~signaled /\ ~childErr /\ successfulPolls = 0)
           => runResult = "unexpected_exit"

\* The child exited cleanly, unsignalled, before any poll had succeeded.
C13_Witness ==
    /\ RunEnded /\ ~signaled /\ ~childErr /\ successfulPolls = 0
    /\ runResult = "unexpected_exit"

----------------------------------------------------------------------------
\* Properties of the invocations seen by the observer.

\* C14: a failing invocation never crashes the session: no invocation, whatever
\* goes wrong with its request, with the local endpoint or in the observer's
\* processing of the request, ends in a panic of the process.
C14_InvocationNeverCrashes ==
    \A r \in Requests : invPc[r] # "panicked"

\* C15 as stated: when the local endpoint answers 200 application/proto with
\* a body that is not a RunResponse, the response is still POSTed to the bridge.
C15_UnparsableResponseForwarded ==
    \A r \in Requests :
        (localRes[r] = "invalid_response" /\ invPc[r] = "done") => posts[r] = 1

\* C15, amended: when the local endpoint answers 200 application/proto with a
\* body that is not a RunResponse, the invocation fails with "invalid
\* response": no response POST is issued and one Cleanup is.
C15_UnparsableResponseFails ==
    \A r \in Requests :
        localRes[r] = "invalid_response" =>
            /\ invErr[r] = "invalid_response"
            /\ invPc[r] \in {"failed", "done"}
            /\ posts[r] = 0
            /\ invPc[r] = "done" => cleanups[r] = 1

\* An invocation ended by cleaning up after an unparsable response.
C15_Witness ==
    \E r \in Requests :
        /\ localRes[r] = "invalid_response" /\ invPc[r] = "done"
        /\ posts[r] = 0 /\ cleanups[r] = 1

\* C16: within an invocation ObserveRequest is called at most once and
\* ObserveResponse never without it; an invocation that called ObserveRequest
\* has called ObserveResponse exactly once by the time it POSTs the response
\* or fails.
C16_ObserverCallOrder ==
    \A r \in Requests :
        /\ obsReq[r] <= 1
        /\ obsResp[r] <= obsReq[r]
        /\ (invPc[r] \in {"post", "failed", "done"} \/ posts[r] > 0)
               => obsResp[r] = obsReq[r]

\* With the TUI observing, an invocation whose local endpoint was unreachable
\* has shown the request and the error to the observer.
C16_Witness ==
    \E r \in Requests :
        /\ tui /\ invPc[r] = "done" /\ localRes[r] = "unreachable"
        /\ obsReq[r] = 1 /\ obsResp[r] = 1

----------------------------------------------------------------------------
\* Properties of the function call model.

\* The call of the last observer call, and whether that call returned.
LastCall == Call(calls, lastOp.id)
Returned == obsPanic = "none"

\* The last observer call was a response with the Exit directive, a terminal
\* status and no tail call.
TerminalExit ==
    /\ lastOp.op = "response" /\ lastOp.res.res # NoRes
    /\ lastOp.res.res.directive = "exit" /\ lastOp.res.res.tailCall = ""
    /\ terminalStatus(lastOp.res.res.status)

\* The last observer call was a response with the Poll directive.
PollDirective ==
    /\ lastOp.op = "response" /\ lastOp.res.res # NoRes
    /\ lastOp.res.res.directive = "poll"

\* The last observer call was a response with an Exit directive that tail calls.
TailCall ==
    /\ lastOp.op = "response" /\ lastOp.res.res # NoRes
    /\ lastOp.res.res.directive = "exit" /\ lastOp.res.res.tailCall # ""

\* C17: once the first response of a call was observed, the call is never
\* both running and done, and it is not running while suspended, whatever
\* the sequence of requests and responses, a request that re-uses the id of a
\* done call included.
C17_RunningExcludesDone ==
    \A id \in DOMAIN calls :
        observed[id] > inflight[id] =>
            /\ ~(calls[id].running /\ calls[id].done)
            /\ calls[id].suspended => ~calls[id].running

\* C18: a response with the Exit directive, a terminal status and no tail call
\* leaves the call done, with a doneTime, and not running; a later request
\* with the id of a done call makes it running and appends exactly one entry
\* to its timeline, keeping the earlier ones.
C18_DoneThenReused ==
    /\ [][(TerminalExit /\ Returned)'
             => /\ LastCall'.done /\ ~LastCall'.running
                /\ LastCall'.doneTime # ZeroTime]_callVars
    /\ [][(lastOp'.op = "request" /\ Call(calls, lastOp'.id).done)
             => /\ LastCall'.running
                /\ LastCall'.timeline =
                       Append(Call(calls, lastOp'.id).timeline,
                              [ts |-> now, rts |-> ZeroTime])]_callVars

\* A call that was done after one round trip was requested again.
C18_Witness ==
    /\ lastOp.op = "request" /\ Returned
    /\ LastCall.done /\ LastCall.doneTime # ZeroTime /\ LastCall.running
    /\ Len(LastCall.timeline) = 2
    /\ LastCall.timeline[1].rts # ZeroTime

\* C19: a response with the Poll directive leaves the call suspended and not
\* running; the next request of a suspended call makes it running and not
\* suspended, and appends one entry to its timeline, keeping the earlier ones.
C19_SuspendThenResume ==
    /\ [][(PollDirective /\ Returned)'
             => LastCall'.suspended /\ ~LastCall'.running]_callVars
    /\ [][(lastOp'.op = "request" /\ Call(calls, lastOp'.id).suspended)
             => /\ LastCall'.running /\ ~LastCall'.suspended
                /\ LastCall'.timeline =
                       Append(Call(calls, lastOp'.id).timeline,
                              [ts |-> now, rts |-> ZeroTime])]_callVars

\* A call that was suspended by a Poll directive was requested again.
C19_Witness ==
    /\ lastOp.op = "request" /\ Returned
    /\ LastCall.polls = 1 /\ LastCall.running /\ ~LastCall.suspended
    /\ Len(LastCall.timeline) = 2
    /\ LastCall.timeline[1].rts # ZeroTime

\* C20 as stated: a tail-call response does not truncate the timeline: after
\* it the timeline of the call has as many entries as before.
C20_TailCallKeepsTimeline ==
    [][(TailCall /\ Returned)'
          => Len(LastCall'.timeline) = Len(Call(calls, lastOp'.id).timeline)]_callVars

\* C20, amended: a tail-call response replaces the function name of the call
\* by the tail call's and resets every other field, the timeline included:
\* after it the call is the zero functionCall but for lastFunction.
C20_TailCallResets ==
    [][(TailCall /\ Returned)'
          => /\ LastCall'.lastFunction = lastOp'.res.res.tailCall
             /\ LastCall'.timeline = <<>>
             /\ LastCall' = [NewCall EXCEPT !.lastFunction = lastOp'.res.res.tailCall]]_callVars

\* A call that was requested twice answered with a tail call: it shows the
\* new function and an empty timeline.
C20_Witness ==
    /\ TailCall /\ Returned
    /\ observed[lastOp.id] = 2
    /\ LastCall.lastFunction \in TailCallFunctions
    /\ LastCall.timeline = <<>> /\ LastCall.failures = 0

\* C21: after a response Exit{TailCall{function = b}} the entry of the call
\* has lastFunction = b, no failures, an empty timeline and done = FALSE,
\* whatever the call was before and whatever the status of the response.
C21_TailCallEntry ==
    [][(TailCall /\ Returned)'
          => /\ LastCall'.lastFunction = lastOp'.res.res.tailCall
             /\ LastCall'.failures = 0
             /\ LastCall'.timeline = <<>>
             /\ ~LastCall'.done]_callVars

\* A tail call came with a terminal failure status: the call is not done and
\* counts no failure.
C21_Witness ==
    /\ TailCall /\ Returned
    /\ lastOp.res.res.status = "PERMANENT_ERROR"
    /\ LastCall.lastFunction \in TailCallFunctions
    /\ LastCall.failures = 0 /\ ~LastCall.done

\* A response that resets the entry of the call: status INCOMPATIBLE_STATE,
\* or an Exit directive with a tail call.
ResetResponse(r) ==
    /\ r.res # NoRes
    /\ \/ r.res.status = "INCOMPATIBLE_STATE"
       \/ r.res.directive = "exit" /\ r.res.tailCall # ""

\* The next state is the one after a response / a request for the call id.
RespondedTo(id) == lastOp'.op = "response" /\ lastOp'.id = id
Requested(id) == lastOp'.op = "request" /\ lastOp'.id = id

\* C22 as stated: for every id the length of the timeline is the number of
\* ObserveRequest calls observed for the id.
C22_TimelineLength ==
    \A id \in Ids : Len(Call(calls, id).timeline) = observed[id]

\* C22, amended: the timeline of a call grows by exactly one entry with every
\* ObserveRequest for its id, is emptied by a response that resets the call
\* (tail call or INCOMPATIBLE_STATE) and is otherwise left as long as it was;
\* so its length is the number of requests observed since the last reset and
\* never more than the number observed.
C22_TimelineSinceReset ==
    /\ [](\A id \in Ids : Len(Call(calls, id).timeline) <= observed[id])
    /\ [][\A id \in Ids :
            LET old == Len(Call(calls, id).timeline)
                new == Len(Call(calls', id).timeline)
            IN  CASE Requested(id) -> new = old + 1
                  [] RespondedTo(id) /\ ResetResponse(lastOp'.res) -> new = 0
                  [] OTHER -> new = old]_callVars

\* A call was requested twice, reset by INCOMPATIBLE_STATE and requested again.
C22_Witness ==
    \E id \in Ids :
        /\ observed[id] = 3 /\ Len(calls[id].timeline) = 1
        /\ lastOp.op = "request" /\ lastOp.id = id /\ Returned

\* C23 as stated: attempt() of a call never decreases over the requests and
\* responses observed.
C23_AttemptMonotone ==
    [][\A id \in Ids :
          attempt(Call(calls', id)) >= attempt(Call(calls, id))]_callVars

\* C23, amended: attempt() of a call never decreases, except with a response
\* for the call that resets it (tail call or INCOMPATIBLE_STATE: attempt()
\* restarts at 0) or that carries a Poll directive while the call is already
\* suspended (two overlapping invocations that both yield).
C23_AttemptMonotoneButReset ==
    [][\A id \in Ids :
          \/ attempt(Call(calls', id)) >= attempt(Call(calls, id))
          \/ /\ RespondedTo(id)
             /\ \/ ResetResponse(lastOp'.res) /\ attempt(Call(calls', id)) = 0
                \/ /\ lastOp'.res.res # NoRes
                   /\ lastOp'.res.res.directive = "poll"
                   /\ Call(calls, id).suspended]_callVars

\* A call yielded and was resumed: its attempt is still the first.
C23_Witness ==
    \E id \in Ids :
        /\ lastOp.op = "request" /\ lastOp.id = id /\ Returned
        /\ calls[id].polls = 1 /\ Len(calls[id].timeline) = 2
        /\ attempt(calls[id]) = 1

\* C24 as stated: once the doneTime of a call is set, no later request or
\* response overwrites or clears it.
C24_DoneTimeKept ==
    [][\A id \in Ids :
          Call(calls, id).doneTime # ZeroTime
              => Call(calls', id).doneTime = Call(calls, id).doneTime]_callVars

\* C24, amended: doneTime is set only by a response that leaves the call done,
\* to the time of the response; once set it is never overwritten, and it is
\* cleared only by a response that resets the call (tail call or
\* INCOMPATIBLE_STATE).
C24_DoneTimeSetOnce ==
    [][\A id \in Ids :
          LET old == Call(calls, id)
              new == Call(calls', id)
          IN  /\ old.doneTime # ZeroTime
                  => \/ new.doneTime = old.doneTime
                     \/ /\ RespondedTo(id) /\ ResetResponse(lastOp'.res)
                        /\ new.doneTime = ZeroTime
              /\ (old.doneTime = ZeroTime /\ new.doneTime # ZeroTime)
                  => RespondedTo(id) /\ new.done /\ new.doneTime = now]_callVars

\* A done call was requested again and answered with a terminal status once
\* more: it keeps the doneTime of its first end.
C24_Witness ==
    \E id \in Ids :
        /\ lastOp.op = "response" /\ lastOp.id = id /\ Returned
        /\ observed[id] = 2 /\ inflight[id] = 0
        /\ calls[id].done /\ calls[id].doneTime = 2
        /\ Len(calls[id].timeline) = 2
        /\ calls[id].timeline[2].rts = 4

\* C25: the model has an entry for every root and every id observed, and for
\* every request observed with a parent other than its root the entry of the
\* parent exists and lists the child exactly once in its ordered children,
\* in every state after the observation.
C25_ParentListsChild ==
    /\ \A id \in Ids : (id \in roots \/ observed[id] > 0) => id \in DOMAIN calls
    /\ \A l \in linked :
          /\ l[2] \in DOMAIN calls
          /\ LET kids == calls[l[2]].orderedChildren
             IN  Cardinality({i \in 1..Len(kids) : kids[i] = l[3]}) = 1

----------------------------------------------------------------------------
\* Properties of the rendering.

\* The call of the i-th row is past a non-zero expiration time and not done.
ExpiredRow(i) ==
    LET n == calls[rows[i].id]
    IN  n.expirationTime # ZeroTime /\ n.expirationTime < lastOp.at /\ ~n.done

\* C26: a call whose expirationTime is non-zero and in the past and that is
\* not done, a call with a request and no response yet included, is rendered
\* as done at its expirationTime: status text "Expired", the failure icon,
\* and the duration up to the expirationTime.
C26_ExpiredIsRenderedDone ==
    (lastOp.op = "render" /\ Returned) =>
        \A i \in 1..Len(rows) :
            ExpiredRow(i) =>
                /\ rows[i].status = "Expired"
                /\ rows[i].icon = "failure"
                /\ rows[i].duration =
                       duration([calls[rows[i].id] EXCEPT
                                     !.done = TRUE,
                                     !.doneTime = calls[rows[i].id].expirationTime],
                                lastOp.at)

----------------------------------------------------------------------------
\* Properties of the classification of HTTP status codes.

\* The last observer call was a response without RunResponse carrying the
\* status code c.
HttpResponded(c) ==
    /\ lastOp.op = "response" /\ Returned
    /\ lastOp.res.res = NoRes /\ lastOp.res.http = c

\* C27: the classification of the status code of a response without
\* RunResponse makes the call done for 501, 200 and 404 and leaves it not
\* done for 408, 429 and 500.
C27_TerminalHttpStatus ==
    /\ \A c \in {501, 200, 404} : HttpResponded(c) => calls[lastOp.id].done
    /\ \A c \in {408, 429, 500} : HttpResponded(c) => ~calls[lastOp.id].done

C27_Witness ==
    HttpResponded(501) /\ calls["a"].done /\ calls["a"].doneTime = 2

\* C28 as stated: a response without RunResponse makes the call done exactly
\* when its code is a 4xx other than 408 and 429, or is 501.
C28_TerminalOnly4xxAnd501 ==
    \A c \in HttpCodes :
        HttpResponded(c) =>
            (calls[lastOp.id].done <=>
                \/ c \div 100 = 4 /\ c \notin {408, 429}
                \/ c = 501)

\* C28, amended: a response without RunResponse leaves the call not done
\* exactly when its code is 408, 429 or a 5xx other than 501; every other
\* code, the 1xx, 2xx and 3xx included, makes the call done.
C28_RetryableOnly408_429_5xx ==
    \A c \in HttpCodes :
        HttpResponded(c) =>
            (calls[lastOp.id].done <=>
                ~ \/ c \in {408, 429}
                  \/ c \div 100 = 5 /\ c # 501)

C28_Witness ==
    HttpResponded(302) /\ calls["a"].done /\ calls["a"].failures = 1

----------------------------------------------------------------------------
\* Properties of the shutdown without interruption.

\* C29: with the TUI active, no OS signal delivered and no quit by the user, a
\* child that exits on its own never leaves signaled set: the run returns the
\* child's exit error when there is one, and prints no resumption hint.
C29_OwnExitNotSignaled ==
    childState = "exited" =>
        /\ ~signaled
        /\ mainPc = "returned" =>
               /\ hint = "none"
               /\ childErr => runResult = "failed_invoke"

\* C30: whenever the signal handler takes a signal from the channel and
\* signals or kills the child through cmd.Process, the child has been started:
\* no signal that arrives before cmd.Start dereferences the unset process.
C30_HandlerUsesStartedProcess ==
    [][signals' = signals - 1 => childState # "notstarted"]_vars

----------------------------------------------------------------------------
\* Properties of the end of a run.

\* The invocation of the request r has ended with its response POST answered
\* 202 or 404 and without Cleanup.
Answered(r) ==
    /\ invPc[r] = "done" /\ invErr[r] = "none"
    /\ posts[r] = 1 /\ cleanups[r] = 0

\* The invocation of the request r has ended with an error and one Cleanup.
CleanedUp(r) ==
    /\ invPc[r] = "done" /\ invErr[r] # "none"
    /\ cleanups[r] = 1

\* C31: when run has returned, every request delivered by a successful poll
\* has ended in exactly one of two outcomes: its response POST was answered
\* 202 or 404 and no Cleanup was sent, or its invocation returned an error and
\* exactly one Cleanup was attempted.
C31_OneOutcomePerRequest ==
    mainPc = "returned" =>
        \A r \in 1..delivered :
            (Answered(r) /\ ~CleanedUp(r)) \/ (CleanedUp(r) /\ ~Answered(r))

\* C32: after the child process has exited, run eventually returns, with the
\* run context cancelled and the signal handler, the TUI goroutine, the poller
\* and every invocation ended.
C32_ExitLeadsToReturn ==
    (childState = "exited") ~>
        /\ mainPc = "returned" /\ ctxDone
        /\ handlerPc = "done" /\ tuiPc = "done" /\ pollerPc = "done"
        /\ \A r \in Requests : invPc[r] \in {"none", "done"}

----------------------------------------------------------------------------
\* Properties of the observer calls.

\* C33: ObserveResponse never indexes an empty timeline: whatever the
\* interleaving of the invocations, overlapping invocations of one id
\* included, the entry of the call holds a roundtrip when its response is
\* observed.
C33_ResponseFindsRoundtrip ==
    obsPanic # "index out of range"

----------------------------------------------------------------------------
\* Properties of the TUI.

\* C34: roots, orderedRoots, calls and the TUI error are read and written only
\* while t.mu is held, by the observer calls, SetError, View and Update: no
\* Update and no View accesses one of them without the mutex.
C34_ModelFieldsUnderMutex ==
    ui.unlocked = {}

\* C35: ObserveRequest links a call into the children of a parent only if
\* the parent differs from the call: no call is a child of itself.
C35_NoSelfChild ==
    \A id \in DOMAIN calls :
        /\ id \notin calls[id].children
        /\ \A i \in 1..Len(calls[id].orderedChildren) : calls[id].orderedChildren[i] # id

\* The step is an ObserveRequest call.
RequestStep ==
    now' = now + 1 /\ lastOp'.op = "request"

\* C36 as stated: ObserveRequest panics if and only if the parent id is
\* non-empty, is not in the model when the request arrives and differs from
\* the root id; otherwise it returns with the parent in the model.
C36_PanicIffUnknownParent ==
    [][RequestStep =>
          LET req == lastOp'.req
              unknown == /\ req.parent # NoId
                         /\ req.parent \notin DOMAIN calls
                         /\ req.parent # req.root
          IN  /\ (obsPanic' = "not implemented") <=> unknown
              /\ (~unknown /\ req.parent # NoId) => req.parent \in DOMAIN calls']_callVars

\* C36, amended: ObserveRequest panics if and only if the parent id is
\* non-empty, is not in the model when the request arrives and differs from
\* the root id and from the id of the request itself; otherwise it returns
\* with the parent in the model.
C36_PanicIffUnknownOtherParent ==
    [][RequestStep =>
          LET req == lastOp'.req
              unknown == /\ req.parent # NoId
                         /\ req.parent \notin DOMAIN calls
                         /\ req.parent \notin {req.root, req.id}
          IN  /\ (obsPanic' = "not implemented") <=> unknown
              /\ (~unknown /\ req.parent # NoId) => req.parent \in DOMAIN calls']_callVars

C36_Witness ==
    /\ lastOp.op = "request" /\ obsPanic = "not implemented"
    /\ lastOp.req.parent \notin {NoId, lastOp.req.root, lastOp.req.id}
    /\ lastOp.req.parent \notin DOMAIN calls

\* The step is an ObserveResponse call that returned.
ResponseStep ==
    now' = now + 1 /\ lastOp'.op = "response" /\ obsPanic' = "none"

\* The response of the step is a RunResponse with a status that is neither OK
\* nor INCOMPATIBLE_STATE, an HTTP response without RunResponse, or an error
\* alone.
CountedFailure(r) ==
    \/ r.res # NoRes /\ r.res.status \notin {"OK", "INCOMPATIBLE_STATE"}
    \/ r.res = NoRes /\ (r.http # 0 \/ r.err)

\* C37 as stated: an ObserveResponse adds exactly one to failures for a
\* RunResponse whose status is neither OK nor INCOMPATIBLE_STATE, for an HTTP
\* response without RunResponse and for an error alone, and leaves failures as
\* it is for a RunResponse with status OK.
C37_FailuresCounted ==
    [][ResponseStep =>
          LET r == lastOp'.res
              before == Call(calls, lastOp'.id).failures
              after == Call(calls', lastOp'.id).failures
          IN  /\ CountedFailure(r) => after = before + 1
              /\ (r.res # NoRes /\ r.res.status = "OK") => after = before]_callVars

\* C37, amended: the same, unless the RunResponse is an Exit with a tail call,
\* which resets the call and leaves failures at 0 whatever its status.
C37_FailuresCountedButTailCall ==
    [][ResponseStep =>
          LET r == lastOp'.res
              before == Call(calls, lastOp'.id).failures
              after == Call(calls', lastOp'.id).failures
              tail == r.res # NoRes /\ r.res.directive = "exit" /\ r.res.tailCall # ""
          IN  /\ (CountedFailure(r) /\ ~tail) => after = before + 1
              /\ (r.res # NoRes /\ r.res.status = "OK" /\ ~tail) => after = before
              /\ tail => after = 0]_callVars

\* A call answered Exit{TEMPORARY_ERROR}, requested again and answered
\* Exit{OK}: one failure, done, two roundtrips, attempt 2.
C37_Witness ==
    /\ TerminalExit /\ Returned /\ lastOp.res.res.status = "OK"
    /\ now = 5 /\ observed[lastOp.id] = 2
    /\ LastCall.failures = 1 /\ LastCall.done
    /\ Len(LastCall.timeline) = 2 /\ attempt(LastCall) = 2

\* The step is Update(tea.KeyMsg) of the key k.
KeyStep(k) ==
    ui.pc = "update" /\ ui'.pc = "view" /\ ui'.msg = k

\* The functions view is what the last View rendered.
FunctionsShown ==
    ui.ready /\ ui.activeTab = "functions" /\ roots # {}

\* The rows of the functions view whose displayed index is the trimmed text
\* of the input.
MatchingRows ==
    {k \in 1..Len(rows) :
        FunctionsShown /\ TrimSpace(ui.selection) # <<>>
                       /\ Itoa(k) = TrimSpace(ui.selection)}

\* C38: in select mode, Enter with a typed number that is the index of a
\* visible row switches to the detail tab, which shows the DispatchID of that
\* row; Enter with no matching row leaves the TUI in select mode on the same
\* tab.
C38_EnterSelectsTypedRow ==
    [][(KeyStep("enter") /\ ui.selectMode) =>
          /\ \A k \in MatchingRows :
                /\ ui'.activeTab = "detail" /\ ~ui'.selectMode
                /\ ui'.selected = rows[k].id
          /\ MatchingRows = {} =>
                ui'.selectMode /\ ui'.activeTab = ui.activeTab]_vars

\* C39: outside select mode esc on the detail tab returns to the functions
\* tab without quitting, esc on another tab quits, and q and ctrl+c quit on
\* every tab; in select mode esc only leaves select mode, tab returns to the
\* functions tab and only ctrl+c quits; select mode is entered only by the
\* focusSelect that a key s asked for while at least one call had been
\* observed and no error was set.
C39_KeyHandling ==
    [][/\ \A k \in Keys : (KeyStep(k) /\ ~ui.selectMode) =>
             /\ (k = "esc" /\ ui.activeTab = "detail") =>
                    ui'.activeTab = "functions" /\ ~ui'.quit
             /\ (k = "esc" /\ ui.activeTab # "detail") => ui'.quit
             /\ k \in {"q", "ctrl+c"} => ui'.quit
       /\ \A k \in Keys : (KeyStep(k) /\ ui.selectMode) =>
             /\ k = "esc" =>
                    ui' = [ui EXCEPT !.selectMode = FALSE, !.pc = "view", !.msg = k]
             /\ k = "tab" => ui'.activeTab = "functions" /\ ~ui'.selectMode
             /\ ui'.quit <=> k = "ctrl+c"
       /\ (ui'.selectMode /\ ~ui.selectMode) =>
             ui'.msg = "focusSelect" /\ ui.pending > 0 /\ calls # << >>
       /\ ui'.pending > ui.pending =>
             /\ KeyStep("s") /\ ~ui.selectMode
             /\ calls # << >> /\ ~ui.err]_vars

\* Select mode was entered with s, a number was typed, and ctrl+c quits.
C39_Witness ==
    /\ ui.msg = "ctrl+c" /\ ui.selectMode /\ ui.quit
    /\ ui.selection = <<"q", "1">>
    /\ calls # << >> /\ ~ui.err

\* The active tab is the detail tab only with t.selected set to the id of an
\* entry of t.calls, and View has not dereferenced a nil t.selected.
SelectionSet ==
    /\ ui.activeTab = "detail" => ui.selected # NoId /\ ui.selected \in DOMAIN calls
    /\ obsPanic # "nil dereference"

\* C40: whenever the active tab is the detail tab, t.selected is set and is
\* the id of an entry of t.calls; View never dereferences a nil t.selected,
\* and a tab key never lands on the detail tab when nothing is selected.
C40_DetailHasSelection ==
    /\ []SelectionSet
    /\ [][(KeyStep("tab") /\ ui.selected = NoId) => ui'.activeTab # "detail"]_vars

\* View rendered the detail tab, with the detail of the selected call.
C40_Witness ==
    /\ ui.detail # NoId /\ ui.detail = ui.selected
    /\ ui.pc = "update" /\ ui.activeTab = "detail"
    /\ ui.selected \in DOMAIN calls

====
